---------------------------- MODULE Spec2Model ----------------------------
(***************************************************************************)
(* A model of the SEOhunt bot: the website analyzer                        *)
(* (src/website_analyzer.py), the query generator (src/query_generator.py) *)
(* and the message handler (src/main.py).                                  *)
(*                                                                         *)
(* Strings.  A Python str is modelled as a sequence of characters, each    *)
(* character a one-element token.  The parser of TLA+ accepts only ASCII   *)
(* in string literals, so a Cyrillic letter is written as its Latin        *)
(* transliteration (one token per letter: "zh" is the single letter 'ж',   *)
(* "ch" is 'ч', "q" is 'ь', "j" is 'й', "y" is 'ы', "ya" is 'я' ...), an   *)
(* upper-case Cyrillic letter as the same token in upper case ("CH" is     *)
(* 'Ч'), and a Latin letter x as "lat_x", which keeps 'e' (Latin) and 'е'  *)
(* (Cyrillic) apart as Python does.  Every string operation of the code    *)
(* (strip, startswith, in, replace, split, lower, title, slicing) is       *)
(* computed on these sequences, character by character.                    *)
(***************************************************************************)
EXTENDS Integers, Sequences, FiniteSets, TLC

VARIABLES
    \* --- QueryGenerator._parse_gpt_response ------------------------------
    response_text,      \* the reply handed to the parser: [none, lines]
    template_items,     \* the item lists a template reply was written from
    pos,                \* index of the next line the for-loop will visit
    result,             \* the result dictionary being filled
    current_section,    \* "None", "high", "medium" or "low"
    ppc,                \* the parser's position: "call", "loop", "done"
    \* --- WebsiteAnalyzer.analyze_website --------------------------------
    site,               \* what the GET of the url meets: the fetch outcome
    script_strings,        \* whether get_text() yields script/style strings
    a_url,              \* the url argument
    soup,               \* the parsed page
    analysis,           \* the analysis dictionary being built / returned
    apc,                \* the analyzer's position
    \* --- QueryGenerator.generate_queries --------------------------------
    provider,           \* what the model call meets: a reply or a failure
    gen_args,           \* the arguments: analysis, region, language, count
    context,            \* the context handed to the model
    builder_calls,      \* how often _build_context ran
    model_calls,        \* how often the model call was issued
    queries_result,     \* the dictionary returned
    gpc,                \* the generator's position
    \* --- SEOBot.handle_message -------------------------------------------
    user_message,       \* update.message.text
    url,                \* the extracted url
    params,             \* the params dict of _parse_user_input
    chat,               \* the last message shown to the user
    hpc                 \* the handler's position

parseVars == <<response_text, template_items, pos, result, current_section, ppc>>
analyzeVars == <<site, script_strings, a_url, soup, analysis, apc>>
generateVars ==
    <<provider, gen_args, context, builder_calls, model_calls, queries_result,
      gpc>>
handlerVars == <<user_message, url, params, chat, hpc>>
vars == <<parseVars, analyzeVars, generateVars, handlerVars>>

-----------------------------------------------------------------------------
(* Bounds of the model (not constants of the program).                     *)

\* the longest reply, in lines, that the parser is run on
MaxLines == 3
\* the most numbered items under one tier header of a template reply
MaxItems == 2

-----------------------------------------------------------------------------
(* Python's str operations on sequences of characters.                     *)

SetMin(S) == CHOOSE x \in S : \A y \in S : x <= y
SetMax(S) == CHOOSE x \in S : \A y \in S : x >= y

\* str.isspace for one character: the whitespace str.strip() removes
IsSpace(c) == c \in {" ", "\t", "\r", "\n"}

\* str.isdigit for one character
IsDigit(c) == c \in {"0", "1", "2", "3", "4", "5", "6", "7", "8", "9"}

\* the first position from i upwards that holds no whitespace
RECURSIVE FirstKept(_, _)
FirstKept(s, i) ==
    IF i > Len(s) \/ ~IsSpace(s[i]) THEN i ELSE FirstKept(s, i + 1)

\* the last position from i downwards that holds no whitespace
RECURSIVE LastKept(_, _)
LastKept(s, i) ==
    IF i < 1 \/ ~IsSpace(s[i]) THEN i ELSE LastKept(s, i - 1)

\* s.strip()
Strip(s) == SubSeq(s, FirstKept(s, 1), LastKept(s, Len(s)))

\* s.startswith(p)
StartsWith(s, p) == Len(s) >= Len(p) /\ SubSeq(s, 1, Len(p)) = p

\* the positions at which p occurs in s
Occurrences(p, s) ==
    {i \in 1..(Len(s) - Len(p) + 1) :
        (p = <<>> \/ s[i] = p[1]) /\ SubSeq(s, i, i + Len(p) - 1) = p}

\* p in s  (p a non-empty str)
Occurs(p, s) ==
    \E i \in 1..(Len(s) - Len(p) + 1) :
        s[i] = p[1] /\ SubSeq(s, i, i + Len(p) - 1) = p

\* s.replace(p, r): every non-overlapping occurrence, left to right
RECURSIVE Replace(_, _, _)
Replace(s, p, r) ==
    IF Len(s) < Len(p) THEN s
    ELSE IF StartsWith(s, p)
         THEN r \o Replace(SubSeq(s, Len(p) + 1, Len(s)), p, r)
         ELSE <<s[1]>> \o Replace(Tail(s), p, r)

\* s.split(c, 1)[1]: what follows the first occurrence of the character c
AfterFirst(s, c) ==
    LET at == SetMin({i \in 1..Len(s) : s[i] = c})
    IN  SubSeq(s, at + 1, Len(s))

\* the concatenation of a sequence of strings
RECURSIVE Concat(_)
Concat(ss) == IF ss = <<>> THEN <<>> ELSE Head(ss) \o Concat(Tail(ss))

-----------------------------------------------------------------------------
(* String constants of src/query_generator.py.                             *)

\* 'Тема сайта:'
THEME_LABEL ==
    <<"T", "e", "m", "a", " ", "s", "a", "j", "t", "a", ":">>
\* 'Регион:'
REGION_LABEL ==
    <<"R", "e", "g", "i", "o", "n", ":">>
\* 'Высокочастотные запросы'
HIGH_NAME ==
    <<"V", "y", "s", "o", "k", "o", "ch", "a", "s", "t", "o", "t", "n", "y",
      "e", " ", "z", "a", "p", "r", "o", "s", "y">>
\* 'ВЧ'
HIGH_ABBR ==
    <<"V", "CH">>
\* 'Среднечастотные запросы'
MEDIUM_NAME ==
    <<"S", "r", "e", "d", "n", "e", "ch", "a", "s", "t", "o", "t", "n", "y",
      "e", " ", "z", "a", "p", "r", "o", "s", "y">>
\* 'СЧ'
MEDIUM_ABBR ==
    <<"S", "CH">>
\* 'Низкочастотные запросы'
LOW_NAME ==
    <<"N", "i", "z", "k", "o", "ch", "a", "s", "t", "o", "t", "n", "y", "e",
      " ", "z", "a", "p", "r", "o", "s", "y">>
\* 'НЧ'
LOW_ABBR ==
    <<"N", "CH">>
\* 'не определено'
THEME_DEFAULT ==
    <<"n", "e", " ", "o", "p", "r", "e", "d", "e", "l", "e", "n", "o">>
\* 'не указан'
REGION_DEFAULT ==
    <<"n", "e", " ", "u", "k", "a", "z", "a", "n">>
\* 'Не удалось сгенерировать'
PARSE_SENTINEL ==
    <<"N", "e", " ", "u", "d", "a", "l", "o", "s", "q", " ", "s", "g", "e",
      "n", "e", "r", "i", "r", "o", "v", "a", "t", "q">>
\* 'ошибка парсинга'
THEME_PARSE_ERROR ==
    <<"o", "sh", "i", "b", "k", "a", " ", "p", "a", "r", "s", "i", "n", "g",
      "a">>
\* 'Ошибка обработки ответа'
PARSE_ERROR_ENTRY ==
    <<"O", "sh", "i", "b", "k", "a", " ", "o", "b", "r", "a", "b", "o", "t",
      "k", "i", " ", "o", "t", "v", "e", "t", "a">>
\* 'не удалось определить'
THEME_APOLOGY ==
    <<"n", "e", " ", "u", "d", "a", "l", "o", "s", "q", " ", "o", "p", "r",
      "e", "d", "e", "l", "i", "t", "q">>
\* 'Невозможно сформировать — сайт недоступен или не содержит текста'
APOLOGY_ENTRY ==
    <<"N", "e", "v", "o", "z", "m", "o", "zh", "n", "o", " ", "s", "f", "o",
      "r", "m", "i", "r", "o", "v", "a", "t", "q", " ", "--", " ", "s", "a",
      "j", "t", " ", "n", "e", "d", "o", "s", "t", "u", "p", "e", "n", " ",
      "i", "l", "i", " ", "n", "e", " ", "s", "o", "d", "e", "r", "zh", "i",
      "t", " ", "t", "e", "k", "s", "t", "a">>
\* 'ошибка генерации'
THEME_GEN_ERROR ==
    <<"o", "sh", "i", "b", "k", "a", " ", "g", "e", "n", "e", "r", "a", "c",
      "i", "i">>
\* 'Ошибка при генерации запросов'
GEN_ERROR_ENTRY ==
    <<"O", "sh", "i", "b", "k", "a", " ", "p", "r", "i", " ", "g", "e", "n",
      "e", "r", "a", "c", "i", "i", " ", "z", "a", "p", "r", "o", "s", "o",
      "v">>

-----------------------------------------------------------------------------
(* QueryGenerator._parse_gpt_response                                      *)

\* the result dictionary before the loop
InitialResult ==
    [theme |-> THEME_DEFAULT, region |-> REGION_DEFAULT,
     high_frequency |-> <<>>, medium_frequency |-> <<>>,
     low_frequency |-> <<>>]

\* the branch a (stripped) line takes in the if/elif chain of the loop
LineKind(line) ==
    IF line = <<>> THEN "blank"
    ELSE IF StartsWith(line, THEME_LABEL) THEN "theme"
    ELSE IF StartsWith(line, REGION_LABEL) THEN "region"
    ELSE IF Occurs(HIGH_NAME, line) \/ Occurs(HIGH_ABBR, line) THEN "high"
    ELSE IF Occurs(MEDIUM_NAME, line) \/ Occurs(MEDIUM_ABBR, line)
         THEN "medium"
    ELSE IF Occurs(LOW_NAME, line) \/ Occurs(LOW_ABBR, line) THEN "low"
    ELSE IF IsDigit(line[1]) /\ Occurs(<<".">>, line) THEN "item"
    ELSE "other"

\* AppendQuery with a numbered line outside any section filed under the
\* first tier instead of dropped
AppendQuery_DefaultHigh(res, section, query) ==
    IF section \in {"high", "None"}
    THEN [res EXCEPT !.high_frequency = Append(@, query)]
    ELSE IF section = "medium"
    THEN [res EXCEPT !.medium_frequency = Append(@, query)]
    ELSE [res EXCEPT !.low_frequency = Append(@, query)]

\* the numbered branch: the query goes to the list of the current section
AppendQuery(res, section, query) ==
    IF section = "high"
    THEN [res EXCEPT !.high_frequency = Append(@, query)]
    ELSE IF section = "medium"
    THEN [res EXCEPT !.medium_frequency = Append(@, query)]
    ELSE IF section = "low"
    THEN [res EXCEPT !.low_frequency = Append(@, query)]
    ELSE res

\* one iteration of the for-loop on the raw line: the new result
LineResult(res, section, raw) ==
    LET line == Strip(raw)
        kind == LineKind(line)
    IN  IF kind = "theme"
        THEN [res EXCEPT !.theme = Strip(Replace(line, THEME_LABEL, <<>>))]
        ELSE IF kind = "region"
        THEN [res EXCEPT !.region = Strip(Replace(line, REGION_LABEL, <<>>))]
        ELSE IF kind = "item"
        THEN AppendQuery(res, section, Strip(AfterFirst(line, ".")))
        ELSE res

\* one iteration of the for-loop on the raw line: the new current_section
LineSection(section, raw) ==
    LET kind == LineKind(Strip(raw))
    IN  IF kind \in {"high", "medium", "low"} THEN kind ELSE section

\* PostPass without the test of the last tier
PostPass_SkipLow(res) ==
    [res EXCEPT
       !.high_frequency = IF @ = <<>> THEN <<PARSE_SENTINEL>> ELSE @,
       !.medium_frequency = IF @ = <<>> THEN <<PARSE_SENTINEL>> ELSE @]

\* the post-pass: an empty tier gets the sentinel
PostPass(res) ==
    [res EXCEPT
       !.high_frequency = IF @ = <<>> THEN <<PARSE_SENTINEL>> ELSE @,
       !.medium_frequency = IF @ = <<>> THEN <<PARSE_SENTINEL>> ELSE @,
       !.low_frequency = IF @ = <<>> THEN <<PARSE_SENTINEL>> ELSE @]

\* the except-branch result
ParseErrorResult ==
    [theme |-> THEME_PARSE_ERROR, region |-> REGION_DEFAULT,
     high_frequency |-> <<PARSE_ERROR_ENTRY>>,
     medium_frequency |-> <<PARSE_ERROR_ENTRY>>,
     low_frequency |-> <<PARSE_ERROR_ENTRY>>]

\* the loop from line k on, as a function of the reply's lines
RECURSIVE ParseLoop(_, _, _, _)
ParseLoop(lines, k, res, section) ==
    IF k > Len(lines) THEN res
    ELSE ParseLoop(lines, k + 1, LineResult(res, section, lines[k]),
                   LineSection(section, lines[k]))

\* _parse_gpt_response(response_text): None has no strip(), and the
\* AttributeError is caught by the except-branch
ParseGptResponse(rt) ==
    IF rt.none THEN ParseErrorResult
    ELSE PostPass(ParseLoop(rt.lines, 1, InitialResult, "None"))


-----------------------------------------------------------------------------
(* Replies the parser is run on.  A reply is the list of lines that        *)
(* response_text.strip().split('\n') yields; None is a reply without text  *)
(* (message.content of a completion may be None).                          *)

\* ''
LINE_BLANK ==
    <<>>
\* 'Тема сайта: кухни'
LINE_THEME ==
    <<"T", "e", "m", "a", " ", "s", "a", "j", "t", "a", ":", " ", "k", "u",
      "h", "n", "i">>
\* 'Тема сайта: подбор НЧ'
LINE_THEME_MARKER ==
    <<"T", "e", "m", "a", " ", "s", "a", "j", "t", "a", ":", " ", "p", "o",
      "d", "b", "o", "r", " ", "N", "CH">>
\* 'Регион: Москва'
LINE_REGION ==
    <<"R", "e", "g", "i", "o", "n", ":", " ", "M", "o", "s", "k", "v", "a">>
\* 'Регион:'
LINE_REGION_EMPTY ==
    <<"R", "e", "g", "i", "o", "n", ":">>
\* 'СЧ:'
LINE_ABBR ==
    <<"S", "CH", ":">>
\* '1. кухни'
LINE_ITEM ==
    <<"1", ".", " ", "k", "u", "h", "n", "i">>
\* '  2. окна пвх  '
LINE_ITEM_PADDED ==
    <<" ", " ", "2", ".", " ", "o", "k", "n", "a", " ", "p", "v", "h", " ",
      " ">>
\* '3. подбор НЧ запросов'
LINE_ITEM_MARKER ==
    <<"3", ".", " ", "p", "o", "d", "b", "o", "r", " ", "N", "CH", " ", "z",
      "a", "p", "r", "o", "s", "o", "v">>
\* '4.'
LINE_ITEM_EMPTY ==
    <<"4", ".">>
\* '2024 год'
LINE_YEAR ==
    <<"2", "0", "2", "4", " ", "g", "o", "d">>
\* 'Вот запросы.'
LINE_PROSE ==
    <<"V", "o", "t", " ", "z", "a", "p", "r", "o", "s", "y", ".">>

\* 'кухни на заказ'
TEXT_KITCHENS ==
    <<"k", "u", "h", "n", "i", " ", "n", "a", " ", "z", "a", "k", "a", "z">>
\* 'окна. пвх'
TEXT_WINDOWS ==
    <<"o", "k", "n", "a", ".", " ", "p", "v", "h">>
\* 'подбор НЧ запросов'
TEXT_MARKER ==
    <<"p", "o", "d", "b", "o", "r", " ", "N", "CH", " ", "z", "a", "p", "r",
      "o", "s", "o", "v">>
\* 'Москва'
TEXT_MOSCOW ==
    <<"M", "o", "s", "k", "v", "a">>
\* 'Высокочастотные запросы (ВЧ):'
HIGH_HEADER ==
    <<"V", "y", "s", "o", "k", "o", "ch", "a", "s", "t", "o", "t", "n", "y",
      "e", " ", "z", "a", "p", "r", "o", "s", "y", " ", "(", "V", "CH", ")",
      ":">>
\* 'Среднечастотные запросы (СЧ):'
MEDIUM_HEADER ==
    <<"S", "r", "e", "d", "n", "e", "ch", "a", "s", "t", "o", "t", "n", "y",
      "e", " ", "z", "a", "p", "r", "o", "s", "y", " ", "(", "S", "CH", ")",
      ":">>
\* 'Низкочастотные запросы (НЧ):'
LOW_HEADER ==
    <<"N", "i", "z", "k", "o", "ch", "a", "s", "t", "o", "t", "n", "y", "e",
      " ", "z", "a", "p", "r", "o", "s", "y", " ", "(", "N", "CH", ")", ":">>

\* the lines replies are made of: every branch of the loop, and the lines
\* on which two branches compete
SampleLines ==
    {LINE_BLANK, LINE_THEME, LINE_THEME_MARKER, LINE_REGION,
     LINE_REGION_EMPTY, HIGH_HEADER, MEDIUM_HEADER, LOW_HEADER, LINE_ABBR,
     LINE_ITEM, LINE_ITEM_PADDED, LINE_ITEM_MARKER, LINE_ITEM_EMPTY,
     LINE_YEAR, LINE_PROSE}

\* every reply of 1..MaxLines sample lines
Replies == UNION {[1..n -> SampleLines] : n \in 1..MaxLines}

TextReply(lines) == [none |-> FALSE, lines |-> lines]
NoneReply == [none |-> TRUE, lines |-> <<>>]

\* the decimal numeral of n, as the template numbers its items
RECURSIVE Decimal(_)
Decimal(n) ==
    LET d == <<"0", "1", "2", "3", "4", "5", "6", "7", "8", "9">>
    IN  IF n < 10 THEN <<d[n + 1]>>
        ELSE Decimal(n \div 10) \o <<d[(n % 10) + 1]>>

\* the numbered lines "1. <item>", "2. <item>", ... of one tier
Numbered(items) ==
    [i \in 1..Len(items) |-> Decimal(i) \o <<".", " ">> \o items[i]]

\* a reply in the format the system prompt demands
TemplateReply(theme, region, hs, ms, ls) ==
    << THEME_LABEL \o <<" ">> \o theme, REGION_LABEL \o <<" ">> \o region,
       <<>>, HIGH_HEADER >> \o Numbered(hs) \o
    << <<>>, MEDIUM_HEADER >> \o Numbered(ms) \o
    << <<>>, LOW_HEADER >> \o Numbered(ls)

\* the texts the items of a template reply are drawn from
ItemTexts == {TEXT_KITCHENS, TEXT_WINDOWS, TEXT_MARKER}

\* the item lists of one tier: 1..MaxItems items
ItemLists == UNION {[1..n -> ItemTexts] : n \in 1..MaxItems}

-----------------------------------------------------------------------------
(* The parser as a state machine: one action per step of the function.     *)

\* the call: lines 230-241, or the except-branch when the reply is None
ParseEnter ==
    /\ ppc = "call"
    /\ IF response_text.none
       THEN /\ result' = ParseErrorResult
            /\ ppc' = "done"
       ELSE /\ result' = InitialResult
            /\ ppc' = "loop"
    /\ pos' = 1
    /\ current_section' = "None"
    /\ UNCHANGED <<response_text, template_items>>
    /\ UNCHANGED <<analyzeVars, generateVars, handlerVars>>

\* one iteration of the for-loop
ParseLine ==
    /\ ppc = "loop"
    /\ pos <= Len(response_text.lines)
    /\ result' = LineResult(result, current_section, response_text.lines[pos])
    /\ current_section' = LineSection(current_section, response_text.lines[pos])
    /\ pos' = pos + 1
    /\ UNCHANGED <<response_text, template_items, ppc>>
    /\ UNCHANGED <<analyzeVars, generateVars, handlerVars>>

\* the loop is exhausted: the post-pass and the return
ParseReturn ==
    /\ ppc = "loop"
    /\ pos > Len(response_text.lines)
    /\ result' = PostPass(result)
    /\ ppc' = "done"
    /\ UNCHANGED <<response_text, template_items, pos, current_section>>
    /\ UNCHANGED <<analyzeVars, generateVars, handlerVars>>

\* no template behind the reply
NoItems == [high |-> <<>>, medium |-> <<>>, low |-> <<>>]

ParseInit ==
    /\ response_text \in {TextReply(r) : r \in Replies} \cup {NoneReply}
    /\ template_items = NoItems
    /\ pos = 1
    /\ result = InitialResult
    /\ current_section = "None"
    /\ ppc = "call"

ParseNext == ParseEnter \/ ParseLine \/ ParseReturn

\* the parser on template replies
TemplateInit ==
    /\ template_items \in [high : ItemLists, medium : ItemLists,
                           low : ItemLists]
    /\ response_text =
         TextReply(TemplateReply(TEXT_KITCHENS, TEXT_MOSCOW,
                                 template_items.high, template_items.medium,
                                 template_items.low))
    /\ pos = 1
    /\ result = InitialResult
    /\ current_section = "None"
    /\ ppc = "call"


-----------------------------------------------------------------------------
(* What a reply holds, read off its lines.                                 *)

TierNames == {"high", "medium", "low"}

\* the kind of the i-th line of a reply
KindAt(lines, i) == LineKind(Strip(lines[i]))

\* the tier of the last section marker before line i, "None" without one
SectionBefore(lines, i) ==
    LET markers == {j \in 1..(i - 1) : KindAt(lines, j) \in TierNames}
    IN  IF markers = {} THEN "None" ELSE KindAt(lines, SetMax(markers))

\* the numbered lines of a reply that stand under a marker of the tier
ItemLines(lines, tier) ==
    {i \in 1..Len(lines) :
        KindAt(lines, i) = "item" /\ SectionBefore(lines, i) = tier}

\* the list of a tier in a result
TierList(res, tier) ==
    IF tier = "high" THEN res.high_frequency
    ELSE IF tier = "medium" THEN res.medium_frequency
    ELSE res.low_frequency

\* a reply without theme label, region label and tier marker anywhere
NoStructure(lines) ==
    \A i \in 1..Len(lines) :
        \A p \in {THEME_LABEL, REGION_LABEL, HIGH_NAME, HIGH_ABBR,
                  MEDIUM_NAME, MEDIUM_ABBR, LOW_NAME, LOW_ABBR} :
            ~Occurs(p, lines[i])

-----------------------------------------------------------------------------
(* Claims on the response parser.                                          *)

\* C1: whatever the reply text, the result returned by _parse_gpt_response
\* has its three frequency lists non-empty, and a tier under whose markers
\* the reply has no numbered line holds exactly the one sentinel entry.
C1_TiersNonEmpty ==
    (ppc = "done" /\ ~response_text.none) =>
        \A tier \in TierNames :
            /\ TierList(result, tier) # <<>>
            /\ ItemLines(response_text.lines, tier) = {} =>
                   TierList(result, tier) = <<PARSE_SENTINEL>>

\* C1 witness: a returned result with one tier filled from the reply and
\* another tier, which collected nothing, holding the sentinel.
C1_Witness ==
    /\ ppc = "done" /\ ~response_text.none
    /\ ItemLines(response_text.lines, "high") # {}
    /\ result.high_frequency # <<PARSE_SENTINEL>>
    /\ ItemLines(response_text.lines, "low") = {}
    /\ result.low_frequency = <<PARSE_SENTINEL>>

\* C2: a reply that matches the output template gives back, tier by tier,
\* exactly the items it was written from, in their order.
C2_RoundTrip ==
    (ppc = "done" /\ template_items # NoItems) =>
        /\ result.high_frequency = template_items.high
        /\ result.medium_frequency = template_items.medium
        /\ result.low_frequency = template_items.low

\* C3: a reply with no theme label, no region label and no tier marker
\* leaves theme and region at their defaults and every tier at exactly the
\* sentinel; its numbered lines are added to no list.
C3_Degradation ==
    (ppc = "done" /\ ~response_text.none
       /\ NoStructure(response_text.lines)) =>
        result = [theme |-> THEME_DEFAULT, region |-> REGION_DEFAULT,
                  high_frequency |-> <<PARSE_SENTINEL>>,
                  medium_frequency |-> <<PARSE_SENTINEL>>,
                  low_frequency |-> <<PARSE_SENTINEL>>]

\* C3 witness: a returned result for a structureless reply that has a
\* numbered line, which was dropped.
C3_Witness ==
    /\ ppc = "done" /\ ~response_text.none
    /\ NoStructure(response_text.lines)
    /\ \E i \in 1..Len(response_text.lines) :
           KindAt(response_text.lines, i) = "item"
    /\ result.high_frequency = <<PARSE_SENTINEL>>

-----------------------------------------------------------------------------
(* Letters: str.lower, str.title.                                          *)

\* the lower-case letters: the Cyrillic alphabet, then the Latin one
LOWER_LETTERS ==
    <<"a", "b", "v", "g", "d", "e", "zh", "z", "i", "j", "k", "l", "m", "n",
      "o", "p", "r", "s", "t", "u", "f", "h", "c", "ch", "sh", "sch", "qq",
      "y", "q", "eh", "yu", "ya", "yo", "lat_a", "lat_b", "lat_c", "lat_d",
      "lat_e", "lat_f", "lat_g", "lat_h", "lat_i", "lat_j", "lat_k", "lat_l",
      "lat_m", "lat_n", "lat_o", "lat_p", "lat_q", "lat_r", "lat_s", "lat_t",
      "lat_u", "lat_v", "lat_w", "lat_x", "lat_y", "lat_z">>
\* their upper-case forms, in the same order
UPPER_LETTERS ==
    <<"A", "B", "V", "G", "D", "E", "ZH", "Z", "I", "J", "K", "L", "M", "N",
      "O", "P", "R", "S", "T", "U", "F", "H", "C", "CH", "SH", "SCH", "QQ",
      "Y", "Q", "EH", "YU", "YA", "YO", "lat_A", "lat_B", "lat_C", "lat_D",
      "lat_E", "lat_F", "lat_G", "lat_H", "lat_I", "lat_J", "lat_K", "lat_L",
      "lat_M", "lat_N", "lat_O", "lat_P", "lat_Q", "lat_R", "lat_S", "lat_T",
      "lat_U", "lat_V", "lat_W", "lat_X", "lat_Y", "lat_Z">>

Range(s) == {s[i] : i \in 1..Len(s)}

LetterIndex(letters, c) ==
    CHOOSE i \in 1..Len(letters) : letters[i] = c

\* the lower-case form of every upper-case letter, and the reverse
LowerOf ==
    [c \in Range(UPPER_LETTERS) |->
        LOWER_LETTERS[LetterIndex(UPPER_LETTERS, c)]]
UpperOf ==
    [c \in Range(LOWER_LETTERS) |->
        UPPER_LETTERS[LetterIndex(LOWER_LETTERS, c)]]

\* c.lower()
Lower(c) == IF c \in DOMAIN LowerOf THEN LowerOf[c] ELSE c

\* c.upper()
Upper(c) == IF c \in DOMAIN UpperOf THEN UpperOf[c] ELSE c

\* a cased letter
IsLetter(c) == c \in DOMAIN LowerOf \cup DOMAIN UpperOf

\* s.lower()
LowerStr(s) == [i \in 1..Len(s) |-> Lower(s[i])]

\* s.title(): a letter that follows no letter is upper-cased, every other
\* letter lower-cased
Title(s) ==
    [i \in 1..Len(s) |->
        IF i = 1 \/ ~IsLetter(s[i - 1]) THEN Upper(s[i]) ELSE Lower(s[i])]

\* Python's None, where a str may stand: a value no str equals
None == <<"None">>

\* the truth value of an Optional[str]
Truthy(s) == s # None /\ s # <<>>

-----------------------------------------------------------------------------
(* SEOBot._extract_url and SEOBot._parse_user_input (src/main.py).         *)

\* 'http://'
URL_HTTP ==
    <<"lat_h", "lat_t", "lat_t", "lat_p", ":", "/", "/">>
\* 'https://'
URL_HTTPS ==
    <<"lat_h", "lat_t", "lat_t", "lat_p", "lat_s", ":", "/", "/">>
\* '.,;:)'
URL_TRAILING ==
    <<".", ",", ";", ":", ")">>
\* 'по'
PO ==
    <<"p", "o">>
\* 'английский'
LANG_ENGLISH ==
    <<"a", "n", "g", "l", "i", "j", "s", "k", "i", "j">>
\* 'русский'
LANG_RUSSIAN ==
    <<"r", "u", "s", "s", "k", "i", "j">>
\* 'english'
TOKEN_ENGLISH ==
    <<"lat_e", "lat_n", "lat_g", "lat_l", "lat_i", "lat_s", "lat_h">>
\* 'russian'
TOKEN_RUSSIAN ==
    <<"lat_r", "lat_u", "lat_s", "lat_s", "lat_i", "lat_a", "lat_n">>
\* the regions list of _parse_user_input, in its order
regions ==
    <<
      \* 'москва'
      <<"m", "o", "s", "k", "v", "a">>,
      \* 'санкт-петербург'
      <<"s", "a", "n", "k", "t", "-", "p", "e", "t", "e", "r", "b", "u", "r",
        "g">>,
      \* 'спб'
      <<"s", "p", "b">>,
      \* 'екатеринбург'
      <<"e", "k", "a", "t", "e", "r", "i", "n", "b", "u", "r", "g">>,
      \* 'новосибирск'
      <<"n", "o", "v", "o", "s", "i", "b", "i", "r", "s", "k">>,
      \* 'казань'
      <<"k", "a", "z", "a", "n", "q">>,
      \* 'нижний новгород'
      <<"n", "i", "zh", "n", "i", "j", " ", "n", "o", "v", "g", "o", "r",
        "o", "d">>,
      \* 'челябинск'
      <<"ch", "e", "l", "ya", "b", "i", "n", "s", "k">>,
      \* 'самара'
      <<"s", "a", "m", "a", "r", "a">>,
      \* 'омск'
      <<"o", "m", "s", "k">>,
      \* 'ростов-на-дону'
      <<"r", "o", "s", "t", "o", "v", "-", "n", "a", "-", "d", "o", "n", "u">>,
      \* 'уфа'
      <<"u", "f", "a">>,
      \* 'красноярск'
      <<"k", "r", "a", "s", "n", "o", "ya", "r", "s", "k">>,
      \* 'воронеж'
      <<"v", "o", "r", "o", "n", "e", "zh">>,
      \* 'пермь'
      <<"p", "e", "r", "m", "q">>,
      \* 'волгоград'
      <<"v", "o", "l", "g", "o", "g", "r", "a", "d">>,
      \* 'краснодар'
      <<"k", "r", "a", "s", "n", "o", "d", "a", "r">>,
      \* 'саратов'
      <<"s", "a", "r", "a", "t", "o", "v">>,
      \* 'тюмень'
      <<"t", "yu", "m", "e", "n", "q">>,
      \* 'россия'
      <<"r", "o", "s", "s", "i", "ya">>,
      \* 'рф'
      <<"r", "f">>
    >>

\* the value of a run of decimal digits: int(...)
RECURSIVE IntOf(_)
IntOf(ds) ==
    IF ds = <<>> THEN 0
    ELSE 10 * IntOf(SubSeq(ds, 1, Len(ds) - 1))
         + (CHOOSE v \in 0..9 : Decimal(v) = <<ds[Len(ds)]>>)

\* the end of the longest run of characters from position i on that
\* satisfy Keep (i - 1 when there is none)
RunEnd(s, i, Keep(_)) ==
    LET stops == {j \in i..Len(s) : ~Keep(s[j])}
    IN  IF stops = {} THEN Len(s) ELSE SetMin(stops) - 1

NotSpace(c) == ~IsSpace(c)

\* s.rstrip(chars)
RStrip(s, chars) ==
    LET keep == {i \in 1..Len(s) : s[i] \notin Range(chars)}
    IN  IF keep = {} THEN <<>> ELSE SubSeq(s, 1, SetMax(keep))

\* where re.search(r'https?://[^\s]+', text) matches: the scheme, then at
\* least one character that is no whitespace
UrlStarts(text) ==
    {i \in 1..Len(text) :
        \E scheme \in {URL_HTTP, URL_HTTPS} :
            /\ StartsWith(SubSeq(text, i, Len(text)), scheme)
            /\ i + Len(scheme) <= Len(text)
            /\ NotSpace(text[i + Len(scheme)])}

\* the default count of handle_message: params.get('count', 5)
DEFAULT_COUNT == 5

\* the largest count the configuration allows: Config.MAX_QUERIES_PER_TYPE
MAX_QUERIES_PER_TYPE == 10

\* _extract_url(text): the first match, without its trailing punctuation;
\* "" without a match
ExtractUrl(text) ==
    IF UrlStarts(text) = {} THEN <<>>
    ELSE LET i == SetMin(UrlStarts(text))
         IN  RStrip(SubSeq(text, i, RunEnd(text, i, NotSpace)), URL_TRAILING)

\* the first region of the list that occurs in the text, 0 without one
RECURSIVE FirstRegion(_, _)
FirstRegion(text_lower, k) ==
    IF k > Len(regions) THEN 0
    ELSE IF Occurs(regions[k], text_lower) THEN k
    ELSE FirstRegion(text_lower, k + 1)

\* where re.search(r'по\s*(\d+)', text_lower) matches
CountStarts(text_lower) ==
    {i \in Occurrences(PO, text_lower) :
        LET d == RunEnd(text_lower, i + Len(PO), IsSpace) + 1
        IN  d <= Len(text_lower) /\ IsDigit(text_lower[d])}

\* int(count_match.group(1)) of the leftmost match
CountValue(text_lower) ==
    LET i == SetMin(CountStarts(text_lower))
        d == RunEnd(text_lower, i + Len(PO), IsSpace) + 1
    IN  IntOf(SubSeq(text_lower, d, RunEnd(text_lower, d, IsDigit)))

\* a dict with the one key k
Entry(k, v) == k :> v
EmptyDict == [k \in {} |-> 0]

\* _parse_user_input with the Russian token looked for first
ParseUserInput_RussianFirst(text, u) ==
    LET text_without_url == Strip(Replace(text, u, <<>>))
        text_lower == LowerStr(text_without_url)
        r == FirstRegion(text_lower, 1)
        region_part ==
            IF r # 0 THEN Entry("region", Title(regions[r])) ELSE EmptyDict
        language_part ==
            IF Occurs(LANG_RUSSIAN, text_lower)
               \/ Occurs(TOKEN_RUSSIAN, text_lower)
            THEN Entry("language", LANG_RUSSIAN)
            ELSE IF Occurs(LANG_ENGLISH, text_lower)
                    \/ Occurs(TOKEN_ENGLISH, text_lower)
            THEN Entry("language", LANG_ENGLISH)
            ELSE EmptyDict
        count_part ==
            IF CountStarts(text_lower) # {}
            THEN Entry("count", CountValue(text_lower)) ELSE EmptyDict
        info_part ==
            IF text_without_url # <<>>
            THEN Entry("additional_info", text_without_url) ELSE EmptyDict
    IN  region_part @@ language_part @@ count_part @@ info_part

\* _parse_user_input(text, url): the params dict
ParseUserInput(text, u) ==
    LET text_without_url == Strip(Replace(text, u, <<>>))
        text_lower == LowerStr(text_without_url)
        r == FirstRegion(text_lower, 1)
        region_part ==
            IF r # 0 THEN Entry("region", Title(regions[r])) ELSE EmptyDict
        language_part ==
            IF Occurs(LANG_ENGLISH, text_lower)
               \/ Occurs(TOKEN_ENGLISH, text_lower)
            THEN Entry("language", LANG_ENGLISH)
            ELSE IF Occurs(LANG_RUSSIAN, text_lower)
                    \/ Occurs(TOKEN_RUSSIAN, text_lower)
            THEN Entry("language", LANG_RUSSIAN)
            ELSE EmptyDict
        count_part ==
            IF CountStarts(text_lower) # {}
            THEN Entry("count", CountValue(text_lower)) ELSE EmptyDict
        info_part ==
            IF text_without_url # <<>>
            THEN Entry("additional_info", text_without_url) ELSE EmptyDict
    IN  region_part @@ language_part @@ count_part @@ info_part

\* params.get(key, default)
Get(dict, key, default) ==
    IF key \in DOMAIN dict THEN dict[key] ELSE default


-----------------------------------------------------------------------------
(* The parsed page (src/website_analyzer.py).  BeautifulSoup's tree is     *)
(* modelled as the sequence of the page's top-level nodes in document      *)
(* order.  A node is [tag, name, text, items]: for a text node ("text")    *)
(* and for title, h1, h2, h3, script, style and noscript elements `text`   *)
(* is the string inside; for a meta element `name` is its name/property    *)
(* and `text` its content; for ul and ol `items` are the li elements,      *)
(* each [text, sub]: the li's own text, then the li texts of a list        *)
(* nested in it (<<>> when none).                                          *)

\* 'description'
META_DESCRIPTION ==
    <<"lat_d", "lat_e", "lat_s", "lat_c", "lat_r", "lat_i", "lat_p", "lat_t",
      "lat_i", "lat_o", "lat_n">>
\* 'og:description'
META_OG_DESCRIPTION ==
    <<"lat_o", "lat_g", ":", "lat_d", "lat_e", "lat_s", "lat_c", "lat_r",
      "lat_i", "lat_p", "lat_t", "lat_i", "lat_o", "lat_n">>
\* 'keywords'
META_KEYWORDS ==
    <<"lat_k", "lat_e", "lat_y", "lat_w", "lat_o", "lat_r", "lat_d", "lat_s">>
\* 'Екатеринбург '
SAMPLE_EKB ==
    <<"E", "k", "a", "t", "e", "r", "i", "n", "b", "u", "r", "g", " ">>
\* 'в Москве\n'
SAMPLE_MOSCOW ==
    <<"v", " ", "M", "o", "s", "k", "v", "e", "\n">>
\* 'окна\t\tпвх'
SAMPLE_TABS ==
    <<"o", "k", "n", "a", "\t", "\t", "p", "v", "h">>
\* '  окна   пвх \n\n недорого'
SAMPLE_SPACES ==
    <<" ", " ", "o", "k", "n", "a", " ", " ", " ", "p", "v", "h", " ", "\n",
      "\n", " ", "n", "e", "d", "o", "r", "o", "g", "o">>
\* 'доставка по СПб'
SAMPLE_SPB ==
    <<"d", "o", "s", "t", "a", "v", "k", "a", " ", "p", "o", " ", "S", "P",
      "b">>
\* 'Казань'
SAMPLE_KAZAN ==
    <<"K", "a", "z", "a", "n", "q">>
\* 'Кухни на заказ'
SAMPLE_TITLE ==
    <<"K", "u", "h", "n", "i", " ", "n", "a", " ", "z", "a", "k", "a", "z">>
\* 'Кухни под ключ'
SAMPLE_KITCHENS ==
    <<"K", "u", "h", "n", "i", " ", "p", "o", "d", " ", "k", "l", "yu", "ch">>
\* 'Шкафы'
SAMPLE_CABINETS ==
    <<"SH", "k", "a", "f", "y">>
\* ' Окна '
SAMPLE_WINDOWS ==
    <<" ", "O", "k", "n", "a", " ">>
\* the cities list of _detect_region, in its order
cities ==
    <<
      \* 'москва'
      <<"m", "o", "s", "k", "v", "a">>,
      \* 'москве'
      <<"m", "o", "s", "k", "v", "e">>,
      \* 'московск'
      <<"m", "o", "s", "k", "o", "v", "s", "k">>,
      \* 'санкт-петербург'
      <<"s", "a", "n", "k", "t", "-", "p", "e", "t", "e", "r", "b", "u", "r",
        "g">>,
      \* 'петербург'
      <<"p", "e", "t", "e", "r", "b", "u", "r", "g">>,
      \* 'спб'
      <<"s", "p", "b">>,
      \* 'санкт петербург'
      <<"s", "a", "n", "k", "t", " ", "p", "e", "t", "e", "r", "b", "u", "r",
        "g">>,
      \* 'екатеринбург'
      <<"e", "k", "a", "t", "e", "r", "i", "n", "b", "u", "r", "g">>,
      \* 'екатеринбурге'
      <<"e", "k", "a", "t", "e", "r", "i", "n", "b", "u", "r", "g", "e">>,
      \* 'новосибирск'
      <<"n", "o", "v", "o", "s", "i", "b", "i", "r", "s", "k">>,
      \* 'новосибирске'
      <<"n", "o", "v", "o", "s", "i", "b", "i", "r", "s", "k", "e">>,
      \* 'казань'
      <<"k", "a", "z", "a", "n", "q">>,
      \* 'казани'
      <<"k", "a", "z", "a", "n", "i">>,
      \* 'нижний новгород'
      <<"n", "i", "zh", "n", "i", "j", " ", "n", "o", "v", "g", "o", "r",
        "o", "d">>,
      \* 'нижнем новгороде'
      <<"n", "i", "zh", "n", "e", "m", " ", "n", "o", "v", "g", "o", "r",
        "o", "d", "e">>,
      \* 'челябинск'
      <<"ch", "e", "l", "ya", "b", "i", "n", "s", "k">>,
      \* 'челябинске'
      <<"ch", "e", "l", "ya", "b", "i", "n", "s", "k", "e">>,
      \* 'самара'
      <<"s", "a", "m", "a", "r", "a">>,
      \* 'самаре'
      <<"s", "a", "m", "a", "r", "e">>,
      \* 'омск'
      <<"o", "m", "s", "k">>,
      \* 'омске'
      <<"o", "m", "s", "k", "e">>,
      \* 'ростов-на-дону'
      <<"r", "o", "s", "t", "o", "v", "-", "n", "a", "-", "d", "o", "n", "u">>,
      \* 'ростове'
      <<"r", "o", "s", "t", "o", "v", "e">>,
      \* 'уфа'
      <<"u", "f", "a">>,
      \* 'уфе'
      <<"u", "f", "e">>,
      \* 'красноярск'
      <<"k", "r", "a", "s", "n", "o", "ya", "r", "s", "k">>,
      \* 'красноярске'
      <<"k", "r", "a", "s", "n", "o", "ya", "r", "s", "k", "e">>,
      \* 'воронеж'
      <<"v", "o", "r", "o", "n", "e", "zh">>,
      \* 'воронеже'
      <<"v", "o", "r", "o", "n", "e", "zh", "e">>,
      \* 'пермь'
      <<"p", "e", "r", "m", "q">>,
      \* 'перми'
      <<"p", "e", "r", "m", "i">>,
      \* 'волгоград'
      <<"v", "o", "l", "g", "o", "g", "r", "a", "d">>,
      \* 'волгограде'
      <<"v", "o", "l", "g", "o", "g", "r", "a", "d", "e">>,
      \* 'краснодар'
      <<"k", "r", "a", "s", "n", "o", "d", "a", "r">>,
      \* 'краснодаре'
      <<"k", "r", "a", "s", "n", "o", "d", "a", "r", "e">>,
      \* 'саратов'
      <<"s", "a", "r", "a", "t", "o", "v">>,
      \* 'саратове'
      <<"s", "a", "r", "a", "t", "o", "v", "e">>,
      \* 'тюмень'
      <<"t", "yu", "m", "e", "n", "q">>,
      \* 'тюмени'
      <<"t", "yu", "m", "e", "n", "i">>
    >>
\* city_map of _detect_region: the pairs <<key, display name>>
city_map ==
    <<
      \* 'москва': 'Москва'
      <<<<"m", "o", "s", "k", "v", "a">>,
        <<"M", "o", "s", "k", "v", "a">>>>,
      \* 'москве': 'Москва'
      <<<<"m", "o", "s", "k", "v", "e">>,
        <<"M", "o", "s", "k", "v", "a">>>>,
      \* 'московск': 'Москва'
      <<<<"m", "o", "s", "k", "o", "v", "s", "k">>,
        <<"M", "o", "s", "k", "v", "a">>>>,
      \* 'санкт-петербург': 'Санкт-Петербург'
      <<<<"s", "a", "n", "k", "t", "-", "p", "e", "t", "e", "r", "b", "u", "r", "g">>,
        <<"S", "a", "n", "k", "t", "-", "P", "e", "t", "e", "r", "b", "u",
          "r", "g">>>>,
      \* 'петербург': 'Санкт-Петербург'
      <<<<"p", "e", "t", "e", "r", "b", "u", "r", "g">>,
        <<"S", "a", "n", "k", "t", "-", "P", "e", "t", "e", "r", "b", "u",
          "r", "g">>>>,
      \* 'спб': 'Санкт-Петербург'
      <<<<"s", "p", "b">>,
        <<"S", "a", "n", "k", "t", "-", "P", "e", "t", "e", "r", "b", "u",
          "r", "g">>>>,
      \* 'санкт петербург': 'Санкт-Петербург'
      <<<<"s", "a", "n", "k", "t", " ", "p", "e", "t", "e", "r", "b", "u", "r", "g">>,
        <<"S", "a", "n", "k", "t", "-", "P", "e", "t", "e", "r", "b", "u",
          "r", "g">>>>,
      \* 'екатеринбург': 'Екатеринбург'
      <<<<"e", "k", "a", "t", "e", "r", "i", "n", "b", "u", "r", "g">>,
        <<"E", "k", "a", "t", "e", "r", "i", "n", "b", "u", "r", "g">>>>,
      \* 'екатеринбурге': 'Екатеринбург'
      <<<<"e", "k", "a", "t", "e", "r", "i", "n", "b", "u", "r", "g", "e">>,
        <<"E", "k", "a", "t", "e", "r", "i", "n", "b", "u", "r", "g">>>>,
      \* 'новосибирск': 'Новосибирск'
      <<<<"n", "o", "v", "o", "s", "i", "b", "i", "r", "s", "k">>,
        <<"N", "o", "v", "o", "s", "i", "b", "i", "r", "s", "k">>>>,
      \* 'новосибирске': 'Новосибирск'
      <<<<"n", "o", "v", "o", "s", "i", "b", "i", "r", "s", "k", "e">>,
        <<"N", "o", "v", "o", "s", "i", "b", "i", "r", "s", "k">>>>,
      \* 'казань': 'Казань'
      <<<<"k", "a", "z", "a", "n", "q">>,
        <<"K", "a", "z", "a", "n", "q">>>>,
      \* 'казани': 'Казань'
      <<<<"k", "a", "z", "a", "n", "i">>,
        <<"K", "a", "z", "a", "n", "q">>>>,
      \* 'нижний новгород': 'Нижний Новгород'
      <<<<"n", "i", "zh", "n", "i", "j", " ", "n", "o", "v", "g", "o", "r", "o", "d">>,
        <<"N", "i", "zh", "n", "i", "j", " ", "N", "o", "v", "g", "o", "r",
          "o", "d">>>>,
      \* 'нижнем новгороде': 'Нижний Новгород'
      <<<<"n", "i", "zh", "n", "e", "m", " ", "n", "o", "v", "g", "o", "r", "o", "d",
  "e">>,
        <<"N", "i", "zh", "n", "i", "j", " ", "N", "o", "v", "g", "o", "r",
          "o", "d">>>>,
      \* 'челябинск': 'Челябинск'
      <<<<"ch", "e", "l", "ya", "b", "i", "n", "s", "k">>,
        <<"CH", "e", "l", "ya", "b", "i", "n", "s", "k">>>>,
      \* 'челябинске': 'Челябинск'
      <<<<"ch", "e", "l", "ya", "b", "i", "n", "s", "k", "e">>,
        <<"CH", "e", "l", "ya", "b", "i", "n", "s", "k">>>>,
      \* 'самара': 'Самара'
      <<<<"s", "a", "m", "a", "r", "a">>,
        <<"S", "a", "m", "a", "r", "a">>>>,
      \* 'самаре': 'Самара'
      <<<<"s", "a", "m", "a", "r", "e">>,
        <<"S", "a", "m", "a", "r", "a">>>>,
      \* 'омск': 'Омск'
      <<<<"o", "m", "s", "k">>,
        <<"O", "m", "s", "k">>>>,
      \* 'омске': 'Омск'
      <<<<"o", "m", "s", "k", "e">>,
        <<"O", "m", "s", "k">>>>,
      \* 'ростов-на-дону': 'Ростов-на-Дону'
      <<<<"r", "o", "s", "t", "o", "v", "-", "n", "a", "-", "d", "o", "n", "u">>,
        <<"R", "o", "s", "t", "o", "v", "-", "n", "a", "-", "D", "o", "n", "u">>>>,
      \* 'ростове': 'Ростов-на-Дону'
      <<<<"r", "o", "s", "t", "o", "v", "e">>,
        <<"R", "o", "s", "t", "o", "v", "-", "n", "a", "-", "D", "o", "n", "u">>>>,
      \* 'уфа': 'Уфа'
      <<<<"u", "f", "a">>,
        <<"U", "f", "a">>>>,
      \* 'уфе': 'Уфа'
      <<<<"u", "f", "e">>,
        <<"U", "f", "a">>>>,
      \* 'красноярск': 'Красноярск'
      <<<<"k", "r", "a", "s", "n", "o", "ya", "r", "s", "k">>,
        <<"K", "r", "a", "s", "n", "o", "ya", "r", "s", "k">>>>,
      \* 'красноярске': 'Красноярск'
      <<<<"k", "r", "a", "s", "n", "o", "ya", "r", "s", "k", "e">>,
        <<"K", "r", "a", "s", "n", "o", "ya", "r", "s", "k">>>>,
      \* 'воронеж': 'Воронеж'
      <<<<"v", "o", "r", "o", "n", "e", "zh">>,
        <<"V", "o", "r", "o", "n", "e", "zh">>>>,
      \* 'воронеже': 'Воронеж'
      <<<<"v", "o", "r", "o", "n", "e", "zh", "e">>,
        <<"V", "o", "r", "o", "n", "e", "zh">>>>,
      \* 'пермь': 'Пермь'
      <<<<"p", "e", "r", "m", "q">>,
        <<"P", "e", "r", "m", "q">>>>,
      \* 'перми': 'Пермь'
      <<<<"p", "e", "r", "m", "i">>,
        <<"P", "e", "r", "m", "q">>>>,
      \* 'волгоград': 'Волгоград'
      <<<<"v", "o", "l", "g", "o", "g", "r", "a", "d">>,
        <<"V", "o", "l", "g", "o", "g", "r", "a", "d">>>>,
      \* 'волгограде': 'Волгоград'
      <<<<"v", "o", "l", "g", "o", "g", "r", "a", "d", "e">>,
        <<"V", "o", "l", "g", "o", "g", "r", "a", "d">>>>,
      \* 'краснодар': 'Краснодар'
      <<<<"k", "r", "a", "s", "n", "o", "d", "a", "r">>,
        <<"K", "r", "a", "s", "n", "o", "d", "a", "r">>>>,
      \* 'краснодаре': 'Краснодар'
      <<<<"k", "r", "a", "s", "n", "o", "d", "a", "r", "e">>,
        <<"K", "r", "a", "s", "n", "o", "d", "a", "r">>>>,
      \* 'саратов': 'Саратов'
      <<<<"s", "a", "r", "a", "t", "o", "v">>,
        <<"S", "a", "r", "a", "t", "o", "v">>>>,
      \* 'саратове': 'Саратов'
      <<<<"s", "a", "r", "a", "t", "o", "v", "e">>,
        <<"S", "a", "r", "a", "t", "o", "v">>>>,
      \* 'тюмень': 'Тюмень'
      <<<<"t", "yu", "m", "e", "n", "q">>,
        <<"T", "yu", "m", "e", "n", "q">>>>,
      \* 'тюмени': 'Тюмень'
      <<<<"t", "yu", "m", "e", "n", "i">>,
        <<"T", "yu", "m", "e", "n", "q">>>>
    >>
\* the usp_keywords list of _extract_usp, in its order
usp_keywords ==
    <<
      \* 'недорого'
      <<"n", "e", "d", "o", "r", "o", "g", "o">>,
      \* 'дешево'
      <<"d", "e", "sh", "e", "v", "o">>,
      \* 'низкие цены'
      <<"n", "i", "z", "k", "i", "e", " ", "c", "e", "n", "y">>,
      \* 'скидк'
      <<"s", "k", "i", "d", "k">>,
      \* 'премиум'
      <<"p", "r", "e", "m", "i", "u", "m">>,
      \* 'элитн'
      <<"eh", "l", "i", "t", "n">>,
      \* 'класс люкс'
      <<"k", "l", "a", "s", "s", " ", "l", "yu", "k", "s">>,
      \* 'быстро'
      <<"b", "y", "s", "t", "r", "o">>,
      \* 'срочно'
      <<"s", "r", "o", "ch", "n", "o">>,
      \* 'за 1 день'
      <<"z", "a", " ", "1", " ", "d", "e", "n", "q">>,
      \* '24 часа'
      <<"2", "4", " ", "ch", "a", "s", "a">>,
      \* 'круглосуточно'
      <<"k", "r", "u", "g", "l", "o", "s", "u", "t", "o", "ch", "n", "o">>,
      \* 'под ключ'
      <<"p", "o", "d", " ", "k", "l", "yu", "ch">>,
      \* 'с установкой'
      <<"s", " ", "u", "s", "t", "a", "n", "o", "v", "k", "o", "j">>,
      \* 'с монтажом'
      <<"s", " ", "m", "o", "n", "t", "a", "zh", "o", "m">>,
      \* 'бесплатн'
      <<"b", "e", "s", "p", "l", "a", "t", "n">>,
      \* 'гарантия'
      <<"g", "a", "r", "a", "n", "t", "i", "ya">>,
      \* 'качество'
      <<"k", "a", "ch", "e", "s", "t", "v", "o">>,
      \* 'опыт'
      <<"o", "p", "y", "t">>,
      \* 'лет на рынке'
      <<"l", "e", "t", " ", "n", "a", " ", "r", "y", "n", "k", "e">>,
      \* 'профессионал'
      <<"p", "r", "o", "f", "e", "s", "s", "i", "o", "n", "a", "l">>
    >>

\* text_content is cut to this many characters
TEXT_LIMIT == 10000
\* find_all(['ul', 'ol'], limit=20)
LIST_LIMIT == 20
\* items[:10]
ITEMS_PER_LIST == 10
\* len(text) < 100
SERVICE_TEXT_LIMIT == 100
\* services[:30]
SERVICES_LIMIT == 30

ListTags == {"ul", "ol"}
HiddenTags == {"script", "style", "noscript"}

TextNode(t) == [tag |-> "text", name |-> <<>>, text |-> t, items |-> <<>>]
Element(tag, t) == [tag |-> tag, name |-> <<>>, text |-> t, items |-> <<>>]
Meta(name, content) ==
    [tag |-> "meta", name |-> name, text |-> content, items |-> <<>>]
ListNode(tag, items) ==
    [tag |-> tag, name |-> <<>>, text |-> <<>>, items |-> items]
Li(t) == [text |-> t, sub |-> <<>>]
LiNested(t, sub) == [text |-> t, sub |-> sub]

\* li.get_text(): the li's own text and the text of the list nested in it
ItemText(li) == li.text \o Concat(li.sub)

\* node.get_text().  Whether the strings inside script and style count as
\* text depends on the installed bs4 (from 4.9 on they are a string type
\* of their own, which get_text() leaves out): script_text says which.
NodeText(n, script_text) ==
    IF n.tag \in ListTags
    THEN Concat([i \in 1..Len(n.items) |-> ItemText(n.items[i])])
    ELSE IF n.tag = "meta" THEN <<>>
    ELSE IF n.tag \in {"script", "style"} /\ ~script_text THEN <<>>
    ELSE n.text

\* soup.get_text()
GetText(doc, script_text) ==
    Concat([i \in 1..Len(doc) |-> NodeText(doc[i], script_text)])

\* the first node of the page that satisfies Test, 0 without one: soup.find
Find(doc, Test(_)) ==
    LET hits == {i \in 1..Len(doc) : Test(doc[i])}
    IN  IF hits = {} THEN 0 ELSE SetMin(hits)

\* _extract_title
ExtractTitle(doc) ==
    LET IsTitle(n) == n.tag = "title"
        IsH1(n) == n.tag = "h1"
    IN  IF Find(doc, IsTitle) # 0 THEN Strip(doc[Find(doc, IsTitle)].text)
        ELSE IF Find(doc, IsH1) # 0 THEN Strip(doc[Find(doc, IsH1)].text)
        ELSE <<>>

\* _extract_description
ExtractDescription(doc) ==
    LET IsDesc(n) == n.tag = "meta" /\ n.name = META_DESCRIPTION
        IsOg(n) == n.tag = "meta" /\ n.name = META_OG_DESCRIPTION
    IN  IF Find(doc, IsDesc) # 0 /\ doc[Find(doc, IsDesc)].text # <<>>
        THEN Strip(doc[Find(doc, IsDesc)].text)
        ELSE IF Find(doc, IsOg) # 0 /\ doc[Find(doc, IsOg)].text # <<>>
        THEN Strip(doc[Find(doc, IsOg)].text)
        ELSE <<>>

\* s.split(sep): the parts between the non-overlapping occurrences of sep
RECURSIVE Split(_, _)
Split(s, sep) ==
    IF ~Occurs(sep, s) THEN <<s>>
    ELSE LET at == SetMin(Occurrences(sep, s))
         IN  <<SubSeq(s, 1, at - 1)>>
             \o Split(SubSeq(s, at + Len(sep), Len(s)), sep)

\* the strings of a list that Keep accepts, in their order
Filter(ss, Keep(_)) == SelectSeq(ss, Keep)

NonEmpty(s) == s # <<>>

\* [x.strip() for x in ss if x.strip()]
StrippedNonEmpty(ss) ==
    Filter([i \in 1..Len(ss) |-> Strip(ss[i])], NonEmpty)

\* _extract_keywords
ExtractKeywords(doc) ==
    LET IsKw(n) == n.tag = "meta" /\ n.name = META_KEYWORDS
    IN  IF Find(doc, IsKw) # 0 /\ doc[Find(doc, IsKw)].text # <<>>
        THEN StrippedNonEmpty(Split(doc[Find(doc, IsKw)].text, <<",">>))
        ELSE <<>>

\* the texts of the page's elements with the tag, in document order
TagTexts(doc, tag) ==
    LET HasTag(n) == n.tag = tag
        nodes == SelectSeq(doc, HasTag)
    IN  [i \in 1..Len(nodes) |-> nodes[i].text]

\* _extract_headings
ExtractHeadings(doc) ==
    [h1 |-> StrippedNonEmpty(TagTexts(doc, "h1")),
     h2 |-> StrippedNonEmpty(TagTexts(doc, "h2")),
     h3 |-> StrippedNonEmpty(TagTexts(doc, "h3"))]

\* the page after script.decompose() on every script, style and noscript
Decompose(doc) ==
    LET Visible(n) == n.tag \notin HiddenTags
    IN  SelectSeq(doc, Visible)

\* text.splitlines(): the lines between the line breaks
RECURSIVE SplitLines(_)
SplitLines(s) ==
    LET breaks == {i \in 1..Len(s) : s[i] \in {"\n", "\r"}}
    IN  IF s = <<>> THEN <<>>
        ELSE IF breaks = {} THEN <<s>>
        ELSE LET at == SetMin(breaks)
                 next == IF s[at] = "\r" /\ at < Len(s) /\ s[at + 1] = "\n"
                         THEN at + 2 ELSE at + 1
             IN  <<SubSeq(s, 1, at - 1)>> \o SplitLines(SubSeq(s, next, Len(s)))

\* the phrases of the stripped lines: line.strip().split("  ") of each
RECURSIVE Phrases(_)
Phrases(lines) ==
    IF lines = <<>> THEN <<>>
    ELSE Split(Strip(Head(lines)), <<" ", " ">>) \o Phrases(Tail(lines))

\* ' '.join(ss)
RECURSIVE JoinSpace(_)
JoinSpace(ss) ==
    IF ss = <<>> THEN <<>>
    ELSE IF Len(ss) = 1 THEN ss[1]
    ELSE ss[1] \o <<" ">> \o JoinSpace(Tail(ss))

\* s[:n]
Prefix(s, n) == SubSeq(s, 1, IF Len(s) < n THEN Len(s) ELSE n)

\* the cleaning of _extract_text_content: lines, phrases, join
CleanText(text) == JoinSpace(StrippedNonEmpty(Phrases(SplitLines(text))))

\* _extract_text_content on the page left by the decompose() calls
ExtractTextContent(doc, script_text) ==
    Prefix(CleanText(GetText(Decompose(doc), script_text)), TEXT_LIMIT)

\* city_map.get(city, default)
CityMapGet(city, default) ==
    LET hits == {i \in 1..Len(city_map) : city_map[i][1] = city}
    IN  IF hits = {} THEN default ELSE city_map[SetMin(hits)][2]

\* the loop of _detect_region from the k-th city on
RECURSIVE DetectLoop(_, _)
DetectLoop(text, k) ==
    IF k > Len(cities) THEN None
    ELSE IF Occurs(cities[k], text)
         THEN CityMapGet(cities[k], Title(cities[k]))
         ELSE DetectLoop(text, k + 1)

\* the region whose variant occurs earliest in the text
DetectRegionText_EarliestInText(text) ==
    LET lower == LowerStr(text)
        hits == {k \in 1..Len(cities) : Occurs(cities[k], lower)}
        At(k) == SetMin(Occurrences(cities[k], lower))
    IN  IF hits = {} THEN None
        ELSE LET k == CHOOSE h \in hits :
                         \A g \in hits : At(h) < At(g) \/ (At(h) = At(g) /\ h <= g)
             IN  CityMapGet(cities[k], Title(cities[k]))

\* _detect_region on the page's text
DetectRegionText(text) == DetectLoop(LowerStr(text), 1)

\* _detect_region(soup)
DetectRegion(doc, script_text) == DetectRegionText(GetText(doc, script_text))

\* ul.find_all('li') of the k-th node: every li below the list in document
\* order, each with its text and its place <<node, item, nested item>>
RECURSIVE ItemLis(_, _, _)
ItemLis(k, items, i) ==
    IF i > Len(items) THEN <<>>
    ELSE << [text |-> ItemText(items[i]), at |-> <<k, i, 0>>] >>
         \o [j \in 1..Len(items[i].sub) |->
                [text |-> items[i].sub[j], at |-> <<k, i, j>>]]
         \o ItemLis(k, items, i + 1)

\* the lists nested in the items of the k-th node, each as its li elements
RECURSIVE NestedLists(_, _, _)
NestedLists(k, items, i) ==
    IF i > Len(items) THEN <<>>
    ELSE (IF items[i].sub = <<>> THEN <<>>
          ELSE << [j \in 1..Len(items[i].sub) |->
                     [text |-> items[i].sub[j], at |-> <<k, i, j>>]] >>)
         \o NestedLists(k, items, i + 1)

\* soup.find_all(['ul', 'ol']) from the k-th node on: every list of the
\* page in document order, a nested list after the list that holds it
RECURSIVE FindAllLists(_, _)
FindAllLists(doc, k) ==
    IF k > Len(doc) THEN <<>>
    ELSE (IF doc[k].tag \in ListTags
          THEN <<ItemLis(k, doc[k].items, 1)>>
               \o NestedLists(k, doc[k].items, 1)
          ELSE <<>>)
         \o FindAllLists(doc, k + 1)

\* the entries one list contributes: of its first ITEMS_PER_LIST li
\* elements those whose stripped text is non-empty and short
ListEntries(lis) ==
    LET first == Prefix(lis, ITEMS_PER_LIST)
        stripped == [i \in 1..Len(first) |->
                        [text |-> Strip(first[i].text), at |-> first[i].at]]
        Short(e) == e.text # <<>> /\ Len(e.text) < SERVICE_TEXT_LIMIT
    IN  SelectSeq(stripped, Short)

\* the entries of _extract_services with the place each comes from
ServiceEntries(doc) ==
    LET lists == Prefix(FindAllLists(doc, 1), LIST_LIMIT)
    IN  Prefix(Concat([i \in 1..Len(lists) |-> ListEntries(lists[i])]),
               SERVICES_LIMIT)

\* _extract_services(soup)
ExtractServices(doc) ==
    [i \in 1..Len(ServiceEntries(doc)) |-> ServiceEntries(doc)[i].text]

\* _extract_usp(soup)
ExtractUsp(doc, script_text) ==
    LET text == LowerStr(GetText(doc, script_text))
        Found(keyword) == Occurs(keyword, text)
    IN  SelectSeq(usp_keywords, Found)


-----------------------------------------------------------------------------
(* WebsiteAnalyzer.analyze_website and _fetch_html.                        *)

\* 'Не удалось получить содержимое сайта'
ERROR_NO_CONTENT ==
    <<"N", "e", " ", "u", "d", "a", "l", "o", "s", "q", " ", "p", "o", "l",
      "u", "ch", "i", "t", "q", " ", "s", "o", "d", "e", "r", "zh", "i", "m",
      "o", "e", " ", "s", "a", "j", "t", "a">>
\* 'Превышено время ожидания ответа от сайта'
ERROR_TIMEOUT ==
    <<"P", "r", "e", "v", "y", "sh", "e", "n", "o", " ", "v", "r", "e", "m",
      "ya", " ", "o", "zh", "i", "d", "a", "n", "i", "ya", " ", "o", "t",
      "v", "e", "t", "a", " ", "o", "t", " ", "s", "a", "j", "t", "a">>
\* 'Ошибка при анализе сайта: '
ERROR_ANALYSIS ==
    <<"O", "sh", "i", "b", "k", "a", " ", "p", "r", "i", " ", "a", "n", "a",
      "l", "i", "z", "e", " ", "s", "a", "j", "t", "a", ":", " ">>

\* the outcome of the GET: an HTTP response with a status and a body
\* (readable: response.text() decodes it), a timeout or a network error;
\* fault: the parse or an extractor raises on this body
HttpOutcome(status, body, readable, fault) ==
    [kind |-> "http", status |-> status, body |-> body,
     readable |-> readable, fault |-> fault]
FailedOutcome(kind) ==
    [kind |-> kind, status |-> 0, body |-> <<>>, readable |-> FALSE,
     fault |-> FALSE]

\* response.status == 200
HTTP_OK == 200

\* _fetch_html(url) returns the body: status 200 and a text that decodes;
\* every other outcome is logged and gives None
FetchSucceeds(s) == s.kind = "http" /\ s.status = HTTP_OK /\ s.readable

\* html_content counted as content whatever it holds
HasContent_AnyBody(s) == FetchSucceeds(s)

\* html_content is truthy: fetched, and not the empty string (an empty
\* body parses to a page with no node)
HasContent(s) == FetchSucceeds(s) /\ s.body # <<>>

\* lines 46-47: a url without scheme gets https://
NormalizeUrl(u) ==
    IF StartsWith(u, URL_HTTP) \/ StartsWith(u, URL_HTTPS) THEN u
    ELSE URL_HTTPS \o u

\* urlparse(url).netloc: from the // to the next /, ? or #
Netloc(u) ==
    LET InHost(c) == c \notin {"/", "?", "#"}
        from == SetMin(Occurrences(<<"/", "/">>, u)) + 2
    IN  SubSeq(u, from, RunEnd(u, from, InHost))

\* the failure dictionary with the reason
Failure(reason) == [success |-> FALSE, error |-> reason]

\* analysis.get('success') is truthy
Successful(a) == Get(a, "success", FALSE)

\* the analysis dictionary of lines 61-73 for a parsed page, the
\* extractors run in the order of the dict literal: text content, which
\* decomposes script, style and noscript, runs before region, services
\* and selling points
Analyze(u, doc, st) ==
    [success |-> TRUE,
     url |-> u,
     domain |-> Netloc(u),
     title |-> ExtractTitle(doc),
     description |-> ExtractDescription(doc),
     keywords |-> ExtractKeywords(doc),
     headings |-> ExtractHeadings(doc),
     text_content |-> ExtractTextContent(doc, st),
     region |-> DetectRegion(Decompose(doc), st),
     services |-> ExtractServices(Decompose(doc)),
     unique_selling_points |-> ExtractUsp(Decompose(doc), st)]

\* lines 45-57: the url is normalised and fetched; without content the
\* failure is returned, else the body is parsed
AnalyzeFetch ==
    /\ apc = "call"
    /\ a_url' = NormalizeUrl(a_url)
    /\ IF HasContent(site)
       THEN /\ soup' = site.body
            /\ apc' = "parsed"
            /\ UNCHANGED analysis
       ELSE /\ analysis' = Failure(ERROR_NO_CONTENT)
            /\ apc' = "returned"
            /\ UNCHANGED soup
    /\ UNCHANGED <<site, script_strings>>
    /\ UNCHANGED <<parseVars, generateVars, handlerVars>>

\* lines 61-68: the first entries of the dict literal
AnalyzeHead ==
    /\ apc = "parsed"
    /\ ~site.fault
    /\ analysis' = [success |-> TRUE,
                    url |-> a_url,
                    domain |-> Netloc(a_url),
                    title |-> ExtractTitle(soup),
                    description |-> ExtractDescription(soup),
                    keywords |-> ExtractKeywords(soup),
                    headings |-> ExtractHeadings(soup)]
    /\ apc' = "text"
    /\ UNCHANGED <<site, script_strings, a_url, soup>>
    /\ UNCHANGED <<parseVars, generateVars, handlerVars>>

\* line 69: _extract_text_content, which removes the script, style and
\* noscript elements from the page
AnalyzeTextContent ==
    /\ apc = "text"
    /\ soup' = Decompose(soup)
    /\ analysis' = analysis @@
          Entry("text_content",
                Prefix(CleanText(GetText(soup', script_strings)), TEXT_LIMIT))
    /\ apc' = "region"
    /\ UNCHANGED <<site, script_strings, a_url>>
    /\ UNCHANGED <<parseVars, generateVars, handlerVars>>

\* line 70: _detect_region
AnalyzeRegion ==
    /\ apc = "region"
    /\ analysis' = analysis @@ Entry("region", DetectRegion(soup, script_strings))
    /\ apc' = "services"
    /\ UNCHANGED <<site, script_strings, a_url, soup>>
    /\ UNCHANGED <<parseVars, generateVars, handlerVars>>

\* line 71: _extract_services
AnalyzeServices ==
    /\ apc = "services"
    /\ analysis' = analysis @@ Entry("services", ExtractServices(soup))
    /\ apc' = "usp"
    /\ UNCHANGED <<site, script_strings, a_url, soup>>
    /\ UNCHANGED <<parseVars, generateVars, handlerVars>>

\* lines 72-76: _extract_usp, and the return of the analysis
AnalyzeUsp ==
    /\ apc = "usp"
    /\ analysis' = analysis @@
          Entry("unique_selling_points", ExtractUsp(soup, script_strings))
    /\ apc' = "returned"
    /\ UNCHANGED <<site, script_strings, a_url, soup>>
    /\ UNCHANGED <<parseVars, generateVars, handlerVars>>

\* lines 84-89: an exception of the parse or of an extractor is caught
AnalyzeExcept ==
    /\ apc = "parsed"
    /\ site.fault
    /\ analysis' = Failure(ERROR_ANALYSIS)
    /\ apc' = "returned"
    /\ UNCHANGED <<site, script_strings, a_url, soup>>
    /\ UNCHANGED <<parseVars, generateVars, handlerVars>>

\* analyze_website as a function of the fetch outcome
AnalyzeWebsite(u, s, st) ==
    IF ~HasContent(s) THEN Failure(ERROR_NO_CONTENT)
    ELSE IF s.fault THEN Failure(ERROR_ANALYSIS)
    ELSE Analyze(NormalizeUrl(u), s.body, st)

AnalyzeStep ==
    \/ AnalyzeFetch
    \/ AnalyzeHead
    \/ AnalyzeTextContent
    \/ AnalyzeRegion
    \/ AnalyzeServices
    \/ AnalyzeUsp
    \/ AnalyzeExcept


-----------------------------------------------------------------------------
(* QueryGenerator._build_context and generate_queries.                     *)

\* 'URL сайта: '
CTX_URL ==
    <<"lat_U", "lat_R", "lat_L", " ", "s", "a", "j", "t", "a", ":", " ">>
\* 'Язык запросов: '
CTX_LANGUAGE ==
    <<"YA", "z", "y", "k", " ", "z", "a", "p", "r", "o", "s", "o", "v", ":",
      " ">>
\* 'Количество запросов в каждой группе: '
CTX_COUNT ==
    <<"K", "o", "l", "i", "ch", "e", "s", "t", "v", "o", " ", "z", "a", "p",
      "r", "o", "s", "o", "v", " ", "v", " ", "k", "a", "zh", "d", "o", "j",
      " ", "g", "r", "u", "p", "p", "e", ":", " ">>
\* 'Регион продвижения: '
CTX_REGION ==
    <<"R", "e", "g", "i", "o", "n", " ", "p", "r", "o", "d", "v", "i", "zh",
      "e", "n", "i", "ya", ":", " ">>
\* 'Регион (определён с сайта): '
CTX_SITE_REGION ==
    <<"R", "e", "g", "i", "o", "n", " ", "(", "o", "p", "r", "e", "d", "e",
      "l", "yo", "n", " ", "s", " ", "s", "a", "j", "t", "a", ")", ":", " ">>
\* '\nЗаголовок сайта: '
CTX_TITLE ==
    <<"\n", "Z", "a", "g", "o", "l", "o", "v", "o", "k", " ", "s", "a", "j",
      "t", "a", ":", " ">>
\* 'Описание сайта: '
CTX_DESCRIPTION ==
    <<"O", "p", "i", "s", "a", "n", "i", "e", " ", "s", "a", "j", "t", "a",
      ":", " ">>
\* 'Заголовки H1: '
CTX_H1 ==
    <<"Z", "a", "g", "o", "l", "o", "v", "k", "i", " ", "lat_H", "1", ":", " ">>
\* 'Заголовки H2: '
CTX_H2 ==
    <<"Z", "a", "g", "o", "l", "o", "v", "k", "i", " ", "lat_H", "2", ":", " ">>
\* '\nУслуги/товары на сайте:\n'
CTX_SERVICES ==
    <<"\n", "U", "s", "l", "u", "g", "i", "/", "t", "o", "v", "a", "r", "y",
      " ", "n", "a", " ", "s", "a", "j", "t", "e", ":", "\n">>
\* '\nУТП (уникальные торговые предложения): '
CTX_USP ==
    <<"\n", "U", "T", "P", " ", "(", "u", "n", "i", "k", "a", "l", "q", "n",
      "y", "e", " ", "t", "o", "r", "g", "o", "v", "y", "e", " ", "p", "r",
      "e", "d", "l", "o", "zh", "e", "n", "i", "ya", ")", ":", " ">>
\* '\nФрагмент текста с сайта: '
CTX_TEXT ==
    <<"\n", "F", "r", "a", "g", "m", "e", "n", "t", " ", "t", "e", "k", "s",
      "t", "a", " ", "s", " ", "s", "a", "j", "t", "a", ":", " ">>
\* '...'
CTX_ELLIPSIS ==
    <<".", ".", ".">>
\* '\nСформируй поисковые запросы для этого сайта.'
CTX_REQUEST ==
    <<"\n", "S", "f", "o", "r", "m", "i", "r", "u", "j", " ", "p", "o", "i",
      "s", "k", "o", "v", "y", "e", " ", "z", "a", "p", "r", "o", "s", "y",
      " ", "d", "l", "ya", " ", "eh", "t", "o", "g", "o", " ", "s", "a", "j",
      "t", "a", ".">>

\* the slices of _build_context
CTX_H1_LIMIT == 3
CTX_H2_LIMIT == 5
CTX_SERVICES_LIMIT == 10
CTX_USP_LIMIT == 5
CTX_TEXT_SAMPLE == 500

\* sep.join(ss)
RECURSIVE Join(_, _)
Join(sep, ss) ==
    IF ss = <<>> THEN <<>>
    ELSE IF Len(ss) = 1 THEN ss[1]
    ELSE ss[1] \o sep \o Join(sep, Tail(ss))

\* one optional line of the context: present when the condition holds
Part(present, line) == IF present THEN <<line>> ELSE <<>>

\* RegionParts with the site's region tested before the override
RegionParts_SiteFirst(a, region) ==
    IF Truthy(Get(a, "region", None))
    THEN <<CTX_SITE_REGION \o a.region>>
    ELSE IF Truthy(region) THEN <<CTX_REGION \o region>>
    ELSE <<>>

\* the region line of the context: the override, else the site's region
RegionParts(a, region) ==
    IF Truthy(region) THEN <<CTX_REGION \o region>>
    ELSE IF Truthy(Get(a, "region", None))
    THEN <<CTX_SITE_REGION \o a.region>>
    ELSE <<>>

\* context_parts of _build_context
ContextParts(a, region, language, count) ==
    LET headings == Get(a, "headings", EmptyDict)
        h1 == Get(headings, "h1", <<>>)
        h2 == Get(headings, "h2", <<>>)
        services == Prefix(Get(a, "services", <<>>), CTX_SERVICES_LIMIT)
        usp == Get(a, "unique_selling_points", <<>>)
        text == Get(a, "text_content", <<>>)
    IN  << CTX_URL \o Get(a, "url", REGION_DEFAULT),
           CTX_LANGUAGE \o language,
           CTX_COUNT \o Decimal(count) >>
        \o RegionParts(a, region)
        \o Part(Get(a, "title", <<>>) # <<>>, CTX_TITLE \o Get(a, "title", <<>>))
        \o Part(Get(a, "description", <<>>) # <<>>,
                CTX_DESCRIPTION \o Get(a, "description", <<>>))
        \o Part(h1 # <<>>,
                CTX_H1 \o Join(<<",", " ">>, Prefix(h1, CTX_H1_LIMIT)))
        \o Part(h2 # <<>>,
                CTX_H2 \o Join(<<",", " ">>, Prefix(h2, CTX_H2_LIMIT)))
        \o Part(services # <<>>,
                CTX_SERVICES \o
                Join(<<"\n">>, [i \in 1..Len(services) |->
                                   <<"-", " ">> \o services[i]]))
        \o Part(usp # <<>>,
                CTX_USP \o Join(<<",", " ">>, Prefix(usp, CTX_USP_LIMIT)))
        \o Part(text # <<>>,
                CTX_TEXT \o Prefix(text, CTX_TEXT_SAMPLE) \o CTX_ELLIPSIS)
        \o <<CTX_REQUEST>>

\* _build_context
BuildContext(a, region, language, count) ==
    Join(<<"\n">>, ContextParts(a, region, language, count))

\* the fixed result for a site that could not be analysed
ApologyResult ==
    [theme |-> THEME_APOLOGY, region |-> REGION_DEFAULT,
     high_frequency |-> <<APOLOGY_ENTRY>>,
     medium_frequency |-> <<APOLOGY_ENTRY>>,
     low_frequency |-> <<APOLOGY_ENTRY>>]

\* the result of the except-branch of generate_queries
GenerationErrorResult(region) ==
    [theme |-> THEME_GEN_ERROR,
     region |-> IF Truthy(region) THEN region ELSE REGION_DEFAULT,
     high_frequency |-> <<GEN_ERROR_ENTRY>>,
     medium_frequency |-> <<GEN_ERROR_ENTRY>>,
     low_frequency |-> <<GEN_ERROR_ENTRY>>]

\* the model call: a reply (whose content may be None) or a failure
ProviderReply(rt) == [kind |-> "reply", text |-> rt]
ProviderError == [kind |-> "error", text |-> NoneReply]

\* only an analysis that says success=false counted as unsuccessful
Unsuccessful_KeyOnly(a) == "success" \in DOMAIN a /\ ~a.success

\* the guard of line 48
Unsuccessful(a) == ~Successful(a)

\* GenerateEnter going to the model call without building the context
GenerateEnter_SkipBuild ==
    /\ gpc = "call"
    /\ IF Unsuccessful(gen_args.analysis)
       THEN /\ queries_result' = ApologyResult
            /\ gpc' = "returned"
       ELSE /\ gpc' = "request"
            /\ UNCHANGED queries_result
    /\ UNCHANGED <<provider, gen_args, context, builder_calls, model_calls>>
    /\ UNCHANGED <<parseVars, analyzeVars, handlerVars>>

\* lines 47-64: an unsuccessful analysis gets the apology at once
GenerateEnter ==
    /\ gpc = "call"
    /\ IF Unsuccessful(gen_args.analysis)
       THEN /\ queries_result' = ApologyResult
            /\ gpc' = "returned"
       ELSE /\ gpc' = "build"
            /\ UNCHANGED queries_result
    /\ UNCHANGED <<provider, gen_args, context, builder_calls, model_calls>>
    /\ UNCHANGED <<parseVars, analyzeVars, handlerVars>>

\* lines 66-69: the context and the system prompt
GenerateBuild ==
    /\ gpc = "build"
    /\ context' = BuildContext(gen_args.analysis, gen_args.region,
                               gen_args.language, gen_args.count)
    /\ builder_calls' = builder_calls + 1
    /\ gpc' = "request"
    /\ UNCHANGED <<provider, gen_args, model_calls, queries_result>>
    /\ UNCHANGED <<parseVars, analyzeVars, handlerVars>>

\* lines 71-82: the model call; its failure goes to the except-branch
\* (lines 88-96)
GenerateRequest ==
    /\ gpc = "request"
    /\ model_calls' = model_calls + 1
    /\ IF provider.kind = "error"
       THEN /\ queries_result' = GenerationErrorResult(gen_args.region)
            /\ gpc' = "returned"
       ELSE /\ gpc' = "parse"
            /\ UNCHANGED queries_result
    /\ UNCHANGED <<provider, gen_args, context, builder_calls>>
    /\ UNCHANGED <<parseVars, analyzeVars, handlerVars>>

\* lines 83-86: the reply is parsed and returned
GenerateParse ==
    /\ gpc = "parse"
    /\ queries_result' = ParseGptResponse(provider.text)
    /\ gpc' = "returned"
    /\ UNCHANGED <<provider, gen_args, context, builder_calls, model_calls>>
    /\ UNCHANGED <<parseVars, analyzeVars, handlerVars>>

GenerateStep ==
    \/ GenerateEnter
    \/ GenerateBuild
    \/ GenerateRequest
    \/ GenerateParse


\* generate_queries as a function of its arguments and of what the model
\* call meets
GenerateQueries(args, p) ==
    IF Unsuccessful(args.analysis) THEN ApologyResult
    ELSE IF p.kind = "error" THEN GenerationErrorResult(args.region)
    ELSE ParseGptResponse(p.text)

-----------------------------------------------------------------------------
(* SEOBot.handle_message.                                                  *)

\* lines 96-118: the message is stripped and the url extracted; without a
\* url the user is told so, else the parameters are parsed and the
\* analyzer is called
HandleStart ==
    /\ hpc = "start"
    /\ LET msg == Strip(user_message)
           u == ExtractUrl(msg)
       IN  /\ url' = u
           /\ IF u = <<>>
              THEN /\ chat' = "no_url"
                   /\ hpc' = "done"
                   /\ UNCHANGED <<params, a_url, apc>>
              ELSE /\ params' = ParseUserInput(msg, u)
                   /\ chat' = "processing"
                   /\ hpc' = "analyzing"
                   /\ a_url' = u
                   /\ apc' = "call"
    /\ UNCHANGED <<user_message, site, script_strings, soup, analysis>>
    /\ UNCHANGED <<parseVars, generateVars>>

\* the arguments of the call of lines 132-137
GeneratorArgs(a, p) ==
    [analysis |-> a,
     region |-> Get(p, "region", None),
     language |-> Get(p, "language", LANG_RUSSIAN),
     count |-> Get(p, "count", DEFAULT_COUNT)]

\* lines 120-137: a failed analysis is reported, a successful one is
\* handed to the generator with the parameters
HandleAnalyzed ==
    /\ hpc = "analyzing"
    /\ apc = "returned"
    /\ IF ~analysis.success
       THEN /\ chat' = "analysis_failed"
            /\ hpc' = "done"
            /\ UNCHANGED <<gen_args, gpc>>
       ELSE /\ gen_args' = GeneratorArgs(analysis, params)
            /\ gpc' = "call"
            /\ hpc' = "generating"
            /\ UNCHANGED chat
    /\ UNCHANGED <<user_message, url, params>>
    /\ UNCHANGED <<provider, context, builder_calls, model_calls,
                   queries_result>>
    /\ UNCHANGED <<parseVars, analyzeVars>>

\* lines 139-143: the result is formatted and sent
HandleRespond ==
    /\ hpc = "generating"
    /\ gpc = "returned"
    /\ chat' = "response"
    /\ hpc' = "done"
    /\ UNCHANGED <<user_message, url, params>>
    /\ UNCHANGED <<parseVars, analyzeVars, generateVars>>

-----------------------------------------------------------------------------
(* Inputs.                                                                 *)

\* 'https://example.com'
URL_EXAMPLE ==
    <<"lat_h", "lat_t", "lat_t", "lat_p", "lat_s", ":", "/", "/", "lat_e",
      "lat_x", "lat_a", "lat_m", "lat_p", "lat_l", "lat_e", ".", "lat_c",
      "lat_o", "lat_m">>
\* 'Екатеринбург'
WORD_EKB ==
    <<"E", "k", "a", "t", "e", "r", "i", "n", "b", "u", "r", "g">>
\* 'запросов'
WORD_QUERIES ==
    <<"z", "a", "p", "r", "o", "s", "o", "v">>
\* 'English'
WORD_ENGLISH ==
    <<"lat_E", "lat_n", "lat_g", "lat_l", "lat_i", "lat_s", "lat_h">>
\* 'https://example.com Екатеринбург, по 7 запросов'
MSG_EXAMPLE ==
    <<"lat_h", "lat_t", "lat_t", "lat_p", "lat_s", ":", "/", "/", "lat_e",
      "lat_x", "lat_a", "lat_m", "lat_p", "lat_l", "lat_e", ".", "lat_c",
      "lat_o", "lat_m", " ", "E", "k", "a", "t", "e", "r", "i", "n", "b",
      "u", "r", "g", ",", " ", "p", "o", " ", "7", " ", "z", "a", "p", "r",
      "o", "s", "o", "v">>
\* 'https://example.com Москва английский по 10'
MSG_ENGLISH ==
    <<"lat_h", "lat_t", "lat_t", "lat_p", "lat_s", ":", "/", "/", "lat_e",
      "lat_x", "lat_a", "lat_m", "lat_p", "lat_l", "lat_e", ".", "lat_c",
      "lat_o", "lat_m", " ", "M", "o", "s", "k", "v", "a", " ", "a", "n",
      "g", "l", "i", "j", "s", "k", "i", "j", " ", "p", "o", " ", "1", "0">>
\* 'https://example.com russian english'
MSG_BOTH_LANGUAGES ==
    <<"lat_h", "lat_t", "lat_t", "lat_p", "lat_s", ":", "/", "/", "lat_e",
      "lat_x", "lat_a", "lat_m", "lat_p", "lat_l", "lat_e", ".", "lat_c",
      "lat_o", "lat_m", " ", "lat_r", "lat_u", "lat_s", "lat_s", "lat_i",
      "lat_a", "lat_n", " ", "lat_e", "lat_n", "lat_g", "lat_l", "lat_i",
      "lat_s", "lat_h">>
\* 'https://example.com, russian по50'
MSG_RUSSIAN ==
    <<"lat_h", "lat_t", "lat_t", "lat_p", "lat_s", ":", "/", "/", "lat_e",
      "lat_x", "lat_a", "lat_m", "lat_p", "lat_l", "lat_e", ".", "lat_c",
      "lat_o", "lat_m", ",", " ", "lat_r", "lat_u", "lat_s", "lat_s",
      "lat_i", "lat_a", "lat_n", " ", "p", "o", "5", "0">>
\* 'https://example.com спб'
MSG_SPB == URL_EXAMPLE \o <<" ", "s", "p", "b">>
\* 'https://example.com кухни в Москве'
MSG_LOCATIVE ==
    URL_EXAMPLE \o <<" ", "k", "u", "h", "n", "i", " ", "v", " ", "M", "o",
                     "s", "k", "v", "e">>
\* 'example.com'
DOMAIN_EXAMPLE ==
    <<"lat_e", "lat_x", "lat_a", "lat_m", "lat_p", "lat_l", "lat_e", ".",
      "lat_c", "lat_o", "lat_m">>
\* 'Москва по 3'
MSG_NO_URL ==
    <<"M", "o", "s", "k", "v", "a", " ", "p", "o", " ", "3">>
\* 'Извините, не могу помочь.'
REPLY_PROSE ==
    <<"I", "z", "v", "i", "n", "i", "t", "e", ",", " ", "n", "e", " ", "m",
      "o", "g", "u", " ", "p", "o", "m", "o", "ch", "q", ".">>

\* the most nodes of a generated page
MaxNodes == 2
\* the most pieces of a generated user message
MaxPieces == 3

\* the nodes generated pages are made of
NodeSamples ==
    {TextNode(SAMPLE_EKB), TextNode(SAMPLE_MOSCOW), TextNode(SAMPLE_TABS),
     TextNode(SAMPLE_SPACES), TextNode(TEXT_MOSCOW),
     Element("script", SAMPLE_SPB),
     Element("noscript", SAMPLE_KAZAN), Element("title", SAMPLE_TITLE),
     ListNode("ul", <<Li(SAMPLE_KITCHENS), Li(<<>>), Li(SAMPLE_WINDOWS)>>),
     ListNode("ol", <<LiNested(SAMPLE_KITCHENS, <<SAMPLE_CABINETS>>),
                      Li(SAMPLE_WINDOWS)>>)}

\* a string of n letters
Letters(n) == [i \in 1..n |-> "a"]

\* the page of the end-to-end example: a title and a list of one item
DOC_EXAMPLE ==
    <<Element("title", SAMPLE_TITLE), ListNode("ul", <<Li(SAMPLE_KITCHENS)>>)>>
\* one list more than find_all takes
DOC_MANY_LISTS ==
    [k \in 1..(LIST_LIMIT + 1) |-> ListNode("ul", <<Li(Decimal(k))>>)]
\* one item more than a list contributes
DOC_LONG_LIST ==
    <<ListNode("ol", [i \in 1..(ITEMS_PER_LIST + 1) |-> Li(Decimal(i))])>>
\* more entries than the result keeps
DOC_MANY_ITEMS ==
    [k \in 1..4 |->
        ListNode("ul", [i \in 1..ITEMS_PER_LIST |-> Li(Decimal(10 * k + i))])]
\* an item just short enough and one just too long
DOC_LONG_ITEM ==
    <<ListNode("ul", <<Li(Letters(SERVICE_TEXT_LIMIT - 1)),
                       Li(Letters(SERVICE_TEXT_LIMIT))>>)>>
\* a text one character longer than text_content may be
DOC_LONG_TEXT == <<TextNode(Letters(TEXT_LIMIT + 1))>>

\* the pages the analyzer is run on: every page of up to MaxNodes sample
\* nodes (the empty body among them) and the pages at the list limits
Docs ==
    UNION {[1..n -> NodeSamples] : n \in 0..MaxNodes}
    \cup {DOC_EXAMPLE, DOC_MANY_LISTS, DOC_LONG_LIST, DOC_MANY_ITEMS,
          DOC_LONG_ITEM}

\* the fetch outcomes that give no page
FetchFailures ==
    {HttpOutcome(404, DOC_EXAMPLE, TRUE, FALSE),
     HttpOutcome(500, <<>>, TRUE, FALSE),
     HttpOutcome(HTTP_OK, DOC_EXAMPLE, FALSE, FALSE),
     FailedOutcome("timeout"), FailedOutcome("network")}

\* an HTTP 200 whose body the extractors raise on
FaultyPage == HttpOutcome(HTTP_OK, DOC_EXAMPLE, TRUE, TRUE)

\* the pieces generated user messages are made of
MessagePieces ==
    {URL_EXAMPLE, URL_EXAMPLE \o <<" ">>, <<" ">>, WORD_EKB, PO, <<"7">>,
     <<"0">>, WORD_ENGLISH, LANG_RUSSIAN}

\* the user messages: every message of up to MaxPieces pieces, and the
\* examples
Messages ==
    {Concat(ps) : ps \in UNION {[1..n -> MessagePieces] : n \in 0..MaxPieces}}
    \cup {MSG_EXAMPLE, MSG_ENGLISH, MSG_BOTH_LANGUAGES, MSG_RUSSIAN,
          MSG_NO_URL, MSG_SPB, MSG_LOCATIVE}

\* the reply of the end-to-end example: MaxItems items per tier
REPLY_TEMPLATE ==
    TemplateReply(TEXT_KITCHENS, TEXT_MOSCOW,
                  [i \in 1..MaxItems |-> TEXT_KITCHENS],
                  [i \in 1..MaxItems |-> TEXT_WINDOWS],
                  [i \in 1..MaxItems |-> TEXT_KITCHENS])

\* a reply whose region line has nothing after the label
REPLY_REGION_EMPTY == <<LINE_THEME, LINE_REGION_EMPTY, HIGH_HEADER, LINE_ITEM>>

\* what the model call can meet
Providers ==
    {ProviderError, ProviderReply(NoneReply),
     ProviderReply(TextReply(REPLY_TEMPLATE)),
     ProviderReply(TextReply(<<REPLY_PROSE>>)),
     ProviderReply(TextReply(REPLY_REGION_EMPTY))}

\* the analyses generate_queries is called with: of pages, failed, and
\* without the success key
AnalysisSamples ==
    {Analyze(URL_EXAMPLE, d, TRUE) :
        d \in {DOC_EXAMPLE, <<TextNode(SAMPLE_EKB)>>, <<TextNode(SAMPLE_TABS)>>}}
    \cup {Failure(ERROR_NO_CONTENT), [url |-> URL_EXAMPLE]}

-----------------------------------------------------------------------------
(* Specifications.                                                         *)

ParseIdle ==
    /\ response_text = NoneReply
    /\ template_items = NoItems
    /\ pos = 1
    /\ result = InitialResult
    /\ current_section = "None"
    /\ ppc = "idle"

AnalyzeIdle ==
    /\ site = FailedOutcome("network")
    /\ script_strings = FALSE
    /\ a_url = <<>>
    /\ soup = <<>>
    /\ analysis = EmptyDict
    /\ apc = "idle"

GenerateIdle ==
    /\ provider = ProviderError
    /\ gen_args = EmptyDict
    /\ context = <<>>
    /\ builder_calls = 0
    /\ model_calls = 0
    /\ queries_result = EmptyDict
    /\ gpc = "idle"

HandlerIdle ==
    /\ user_message = <<>>
    /\ url = <<>>
    /\ params = EmptyDict
    /\ chat = "none"
    /\ hpc = "idle"

\* _parse_gpt_response on every reply of sample lines
ParseOnlyInit == ParseInit /\ AnalyzeIdle /\ GenerateIdle /\ HandlerIdle

SpecParse == ParseOnlyInit /\ [][ParseNext]_vars

\* _parse_gpt_response on the replies in the template's format
TemplateOnlyInit ==
    TemplateInit /\ AnalyzeIdle /\ GenerateIdle /\ HandlerIdle

SpecTemplate == TemplateOnlyInit /\ [][ParseNext]_vars

\* analyze_website called on every page and every fetch outcome, and once
\* on the page with the long text
AnalyzeInit ==
    /\ \/ /\ site \in {HttpOutcome(HTTP_OK, d, TRUE, FALSE) : d \in Docs}
                      \cup FetchFailures \cup {FaultyPage}
          /\ script_strings \in BOOLEAN
          /\ a_url \in {URL_EXAMPLE, DOMAIN_EXAMPLE}
       \/ /\ site = HttpOutcome(HTTP_OK, DOC_LONG_TEXT, TRUE, FALSE)
          /\ script_strings = FALSE
          /\ a_url = URL_EXAMPLE
    /\ soup = <<>>
    /\ analysis = EmptyDict
    /\ apc = "call"

AnalyzeOnlyInit == AnalyzeInit /\ ParseIdle /\ GenerateIdle /\ HandlerIdle

SpecAnalyze == AnalyzeOnlyInit /\ [][AnalyzeStep]_vars

\* generate_queries called on every sample analysis and provider outcome
GenerateInit ==
    /\ provider \in Providers
    /\ gen_args \in [analysis : AnalysisSamples,
                     region : {None, <<>>, TEXT_MOSCOW},
                     language : {LANG_RUSSIAN, LANG_ENGLISH},
                     count : {1, DEFAULT_COUNT}]
    /\ context = <<>>
    /\ builder_calls = 0
    /\ model_calls = 0
    /\ queries_result = EmptyDict
    /\ gpc = "call"

GenerateOnlyInit == GenerateInit /\ ParseIdle /\ AnalyzeIdle /\ HandlerIdle

SpecGenerate == GenerateOnlyInit /\ [][GenerateStep]_vars

\* the handler with the analyzer and the generator it calls
HandleNext ==
    \/ HandleStart
    \/ HandleAnalyzed
    \/ HandleRespond
    \/ AnalyzeStep
    \/ GenerateStep

\* what a handler run starts from, the message and the outcomes given
HandleInit(messages, sites, flags, providers) ==
    /\ user_message \in messages
    /\ url = <<>>
    /\ params = EmptyDict
    /\ chat = "none"
    /\ hpc = "start"
    /\ site \in sites
    /\ script_strings \in flags
    /\ a_url = <<>>
    /\ soup = <<>>
    /\ analysis = EmptyDict
    /\ apc = "idle"
    /\ provider \in providers
    /\ gen_args = EmptyDict
    /\ context = <<>>
    /\ builder_calls = 0
    /\ model_calls = 0
    /\ queries_result = EmptyDict
    /\ gpc = "idle"

\* handle_message on the example messages, every fetch outcome and every
\* provider outcome
PipelineInit ==
    /\ HandleInit({URL_EXAMPLE, MSG_EXAMPLE, MSG_RUSSIAN, MSG_NO_URL},
                  {HttpOutcome(HTTP_OK, d, TRUE, FALSE) :
                      d \in {DOC_EXAMPLE, <<>>, <<TextNode(SAMPLE_MOSCOW)>>}}
                  \cup FetchFailures \cup {FaultyPage},
                  BOOLEAN, Providers)
    /\ ParseIdle

SpecPipeline == PipelineInit /\ [][HandleNext]_vars

\* handle_message on every user message, for a page that is analysed and
\* one the extractors raise on
ParamsInit ==
    /\ HandleInit(Messages,
                  {HttpOutcome(HTTP_OK, DOC_EXAMPLE, TRUE, FALSE), FaultyPage},
                  {TRUE},
                  {ProviderReply(TextReply(REPLY_TEMPLATE))})
    /\ ParseIdle

SpecParams == ParamsInit /\ [][HandleNext]_vars

-----------------------------------------------------------------------------
(* Claims about the analyzer, the generator and the handler.               *)

\* the keys of a QueryResult
QueryResultKeys ==
    {"theme", "region", "high_frequency", "medium_frequency", "low_frequency"}

\* whatever the fetch outcome and the provider outcome, a call that is
\* under way has a value to return, and what has been returned is that
\* value
NeverRaises ==
    /\ apc # "idle" =>
          LET r == AnalyzeWebsite(a_url, site, script_strings)
          IN  /\ "success" \in DOMAIN r
              /\ apc = "returned" => analysis = r
    /\ gpc # "idle" =>
          LET q == GenerateQueries(gen_args, provider)
          IN  /\ DOMAIN q = QueryResultKeys
              /\ gpc = "returned" => queries_result = q

\* what generate_queries returns whatever the provider does: a QueryResult,
\* and after a failed model call the fixed error result
GenerateAlwaysReturns ==
    gpc = "returned" =>
        /\ DOMAIN queries_result = QueryResultKeys
        /\ provider.kind = "error" /\ model_calls > 0 =>
              /\ queries_result.theme = THEME_GEN_ERROR
              /\ queries_result.high_frequency = <<GEN_ERROR_ENTRY>>
              /\ queries_result.medium_frequency = <<GEN_ERROR_ENTRY>>
              /\ queries_result.low_frequency = <<GEN_ERROR_ENTRY>>

\* the analysis returned is a dictionary with a success flag, and a failure
\* carries a reason
AnalyzeAlwaysReturns ==
    apc = "returned" =>
        /\ "success" \in DOMAIN analysis
        /\ ~analysis.success =>
              "error" \in DOMAIN analysis /\ analysis.error # <<>>

\* the response has status 200
Status200 == site.kind = "http" /\ site.status = HTTP_OK

\* C4 (as amended): analyze_website and generate_queries always return and
\* never raise; a response other than HTTP 200, a timeout and a network
\* error give success=false with a non-empty error; HTTP 200 gives
\* success=true exactly when the body decodes, is not empty and the
\* extraction raises nothing, and success=false with an error otherwise;
\* a failed model call gives theme 'ошибка генерации' and each tier equal
\* to ['Ошибка при генерации запросов'].
C4_NoFailureEscapes ==
    /\ NeverRaises
    /\ AnalyzeAlwaysReturns
    /\ GenerateAlwaysReturns
    /\ apc = "returned" =>
          (analysis.success <=>
              /\ Status200
              /\ site.readable
              /\ site.body # <<>>
              /\ ~site.fault)

\* C4: HTTP 200 with an empty body has been analysed, and the analysis is
\* a failure with its reason
C4_Witness ==
    /\ apc = "returned"
    /\ Status200
    /\ site.readable
    /\ site.body = <<>>
    /\ ~analysis.success
    /\ analysis.error = ERROR_NO_CONTENT

\* C4 as stated: as above, but with success=true on every HTTP 200
C4_Original ==
    /\ NeverRaises
    /\ AnalyzeAlwaysReturns
    /\ GenerateAlwaysReturns
    /\ apc = "returned" => (analysis.success <=> Status200)

\* C5: when the analysis is unsuccessful (success false or missing) the
\* prompt builder is not invoked, the model is not called, and
\* generate_queries returns theme 'не удалось определить', region
\* 'не указан' and one sentinel string in each of the three tiers.
C5_NoModelCallOnFailure ==
    ("success" \notin DOMAIN gen_args.analysis \/ ~gen_args.analysis.success)
    /\ gpc # "idle" =>
        /\ builder_calls = 0
        /\ model_calls = 0
        /\ gpc \in {"call", "returned"}
        /\ gpc = "returned" =>
              /\ queries_result.theme = THEME_APOLOGY
              /\ queries_result.region = REGION_DEFAULT
              /\ \A tier \in {"high_frequency", "medium_frequency",
                              "low_frequency"} :
                    /\ Len(queries_result[tier]) = 1
                    /\ queries_result[tier][1] = APOLOGY_ENTRY

\* C5: generate_queries has returned for an analysis without the success key
C5_Witness ==
    /\ gpc = "returned"
    /\ "success" \notin DOMAIN gen_args.analysis
    /\ queries_result.theme = THEME_APOLOGY
    /\ model_calls = 0

\* C6: text_content is at most 10000 characters long and contains no run
\* of more than one consecutive whitespace character.
C6_TextCollapsed ==
    apc = "returned" /\ analysis.success =>
        LET text == analysis.text_content
        IN  /\ Len(text) <= TEXT_LIMIT
            /\ \A i \in 1..(Len(text) - 1) :
                  ~(IsSpace(text[i]) /\ IsSpace(text[i + 1]))

\* place p is before place q in the document
Before(p, q) ==
    \/ p[1] < q[1]
    \/ p[1] = q[1] /\ p[2] < q[2]
    \/ p[1] = q[1] /\ p[2] = q[2] /\ p[3] < q[3]

\* C7: services has at most 30 entries, every entry is non-empty and
\* shorter than 100 characters, and the entries appear in original
\* document order.
C7_ServicesInOrder ==
    apc = "returned" /\ analysis.success =>
        LET entries == ServiceEntries(soup)
        IN  /\ Len(analysis.services) <= SERVICES_LIMIT
            /\ \A i \in 1..Len(analysis.services) :
                  /\ analysis.services[i] # <<>>
                  /\ Len(analysis.services[i]) < SERVICE_TEXT_LIMIT
            /\ \A i, j \in 1..Len(entries) :
                  i < j => Before(entries[i].at, entries[j].at)

\* the variants of the table that occur in the lower-cased text
VariantsIn(lower) == {k \in 1..Len(cities) : Occurs(cities[k], lower)}

\* C8: _detect_region returns the display name of the first variant, in
\* table order, that occurs in the lower-cased text, wherever the variants
\* occur in the text, and None when no variant occurs; a text with both
\* 'Екатеринбург' and 'Москва' gives 'Москва'.
C8_TableOrder ==
    apc = "returned" /\ analysis.success =>
        LET text == GetText(soup, script_strings)
            hits == VariantsIn(LowerStr(text))
        IN  /\ hits = {} => analysis.region = None
            /\ hits # {} =>
                  analysis.region =
                     CityMapGet(cities[SetMin(hits)],
                                Title(cities[SetMin(hits)]))
            /\ Occurs(WORD_EKB, text) /\ Occurs(TEXT_MOSCOW, text) =>
                  analysis.region = TEXT_MOSCOW

\* C8: a page with 'Екатеринбург' before 'Москва' has been given the
\* region 'Москва'
C8_Witness ==
    /\ apc = "returned"
    /\ site.body = <<TextNode(SAMPLE_EKB), TextNode(TEXT_MOSCOW)>>
    /\ analysis.success
    /\ analysis.region = TEXT_MOSCOW

\* C9: the count passed to generate_queries is within 1..10 whatever
\* number follows 'по', and is 5 when no count is given.
C9_CountClamped ==
    gen_args # EmptyDict =>
        /\ gen_args.count \in 1..MAX_QUERIES_PER_TYPE
        /\ "count" \notin DOMAIN params => gen_args.count = DEFAULT_COUNT

\* the message beside its url, lower-cased
RestLower == LowerStr(Strip(Replace(Strip(user_message), url, <<>>)))

\* the English token, the Russian token occurs beside the url
EnglishToken ==
    Occurs(LANG_ENGLISH, RestLower) \/ Occurs(TOKEN_ENGLISH, RestLower)
RussianToken ==
    Occurs(LANG_RUSSIAN, RestLower) \/ Occurs(TOKEN_RUSSIAN, RestLower)

\* the keys _parse_user_input may set
ParamKeys == {"region", "language", "count", "additional_info"}

\* C10: parameter extraction never fails and leaves every unmatched field
\* at its default: a message of the url alone gives the generator region
\* None, language 'русский' and count 5; 'https://example.com Екатеринбург,
\* по 7 запросов' yields region 'Екатеринбург', count 7 and no language;
\* language is 'английский' only with the English token and is set to
\* 'русский' only with the Russian token and without the English one.
C10_ParamsDefaults ==
    /\ hpc = "start" /\ ExtractUrl(Strip(user_message)) # <<>> =>
        DOMAIN ParseUserInput(Strip(user_message),
                              ExtractUrl(Strip(user_message)))
           \subseteq ParamKeys
    /\ hpc \notin {"idle", "start"} /\ url # <<>> =>
        /\ DOMAIN params \subseteq ParamKeys
        /\ Strip(user_message) = url => params = EmptyDict
        /\ user_message = MSG_EXAMPLE =>
              /\ params.region = WORD_EKB
              /\ params.count = 7
              /\ "language" \notin DOMAIN params
        /\ Get(params, "language", None) = LANG_ENGLISH <=> EnglishToken
        /\ Get(params, "language", None) = LANG_RUSSIAN <=>
              RussianToken /\ ~EnglishToken
        /\ Get(params, "language", None) \in {None, LANG_ENGLISH, LANG_RUSSIAN}
        /\ "region" \notin DOMAIN params <=>
              \A k \in 1..Len(regions) : ~Occurs(regions[k], RestLower)
        /\ "count" \notin DOMAIN params <=> CountStarts(RestLower) = {}
    /\ gen_args # EmptyDict =>
        /\ gen_args.region = Get(params, "region", None)
        /\ gen_args.language = Get(params, "language", LANG_RUSSIAN)
        /\ gen_args.count = Get(params, "count", DEFAULT_COUNT)
        /\ Strip(user_message) = url =>
              /\ gen_args.region = None
              /\ gen_args.language = LANG_RUSSIAN
              /\ gen_args.count = DEFAULT_COUNT

\* C10: the example message has reached the generator with region
\* 'Екатеринбург', count 7 and the default language
C10_Witness ==
    /\ user_message = MSG_EXAMPLE
    /\ gpc = "call"
    /\ gen_args.region = WORD_EKB
    /\ gen_args.count = 7
    /\ gen_args.language = LANG_RUSSIAN
    /\ "language" \notin DOMAIN params


-----------------------------------------------------------------------------
(* Claims on the results of generate_queries and on the context.           *)

\* a reply with a region line that has text after the label
RegionRecovered(rt) ==
    /\ ~rt.none
    /\ \E i \in 1..Len(rt.lines) :
           /\ KindAt(rt.lines, i) = "region"
           /\ Strip(Replace(Strip(rt.lines[i]), REGION_LABEL, <<>>)) # <<>>

\* C11: every QueryResult generate_queries returns (the apology result, the
\* provider-error result, the parse-error result and the result parsed from
\* any reply) has a region that is present and not empty, and it is
\* 'не указан' when no region was recovered: none from the reply, and
\* after a failed model call none from the caller.
C11_RegionDisplay ==
    gpc = "returned" =>
        /\ "region" \in DOMAIN queries_result
        /\ queries_result.region # <<>>
        /\ queries_result.region # None
        /\ (Unsuccessful(gen_args.analysis)
              \/ (provider.kind = "error" /\ ~Truthy(gen_args.region))
              \/ (provider.kind = "reply" /\ ~RegionRecovered(provider.text)))
             => queries_result.region = REGION_DEFAULT

\* the lines of the context block
ContextLines == Split(context, <<"\n">>)

\* the lines of the context block that state a region
RegionLines ==
    {i \in 1..Len(ContextLines) :
        \/ StartsWith(ContextLines[i], CTX_REGION)
        \/ StartsWith(ContextLines[i], CTX_SITE_REGION)}

\* the region the site analysis detected, None without one
SiteRegion == Get(gen_args.analysis, "region", None)

\* C12: the context block built by _build_context has at most one region
\* line; with a region override the line carries the override, whatever
\* the site analysis detected; without an override it carries the region
\* detected on the site; without either there is no region line.
C12_RegionPrecedence ==
    builder_calls > 0 =>
        /\ Cardinality(RegionLines) <= 1
        /\ Truthy(gen_args.region) =>
              \E i \in RegionLines :
                  ContextLines[i] = CTX_REGION \o gen_args.region
        /\ (~Truthy(gen_args.region) /\ Truthy(SiteRegion)) =>
              \E i \in RegionLines :
                  ContextLines[i] = CTX_SITE_REGION \o SiteRegion
        /\ (~Truthy(gen_args.region) /\ ~Truthy(SiteRegion)) =>
              RegionLines = {}

\* C12 witness: a context built for an override on a site whose analysis
\* detected another region; the one region line is the override's.
C12_Witness ==
    /\ builder_calls > 0
    /\ Truthy(gen_args.region)
    /\ Truthy(SiteRegion)
    /\ SiteRegion # gen_args.region
    /\ \E i \in RegionLines : ContextLines[i] = CTX_REGION \o gen_args.region

-----------------------------------------------------------------------------
(* Claims on the current tier of the parser.                               *)

\* the line the for-loop is about to visit, stripped
CurrentLine == Strip(response_text.lines[pos])

\* a numbered line: it starts with a digit and holds a dot
NumberedLine(line) ==
    line # <<>> /\ IsDigit(line[1]) /\ Occurs(<<".">>, line)

\* a line that holds a tier name or a tier abbreviation
HoldsMarker(line) ==
    \E p \in {HIGH_NAME, HIGH_ABBR, MEDIUM_NAME, MEDIUM_ABBR, LOW_NAME,
              LOW_ABBR} : Occurs(p, line)

\* a section-marker line: it holds a marker and is neither a label line
\* nor a numbered line
MarkerLine(line) ==
    /\ HoldsMarker(line)
    /\ ~StartsWith(line, THEME_LABEL)
    /\ ~StartsWith(line, REGION_LABEL)
    /\ ~NumberedLine(line)

\* the three lists of a result
TierLists(res) == [tier \in TierNames |-> TierList(res, tier)]

\* one iteration of the loop keeps the tier on a line that is no section
\* marker, and files a numbered line under the current tier only
TierStep ==
    LET line == CurrentLine
        query == Strip(AfterFirst(line, "."))
    IN  /\ ~MarkerLine(line) => current_section' = current_section
        /\ NumberedLine(line) =>
              TierLists(result') =
                  [tier \in TierNames |->
                      IF tier = current_section
                      THEN Append(TierList(result, tier), query)
                      ELSE TierList(result, tier)]

\* C13: the current tier of the parser starts at NONE and changes only on
\* section-marker lines: a theme-label line, a region-label line, a
\* numbered line, a blank line and any other line leave it unchanged, so
\* every numbered line is appended to the list of the tier of the most
\* recent marker and to no other list.
C13_TierOnlyOnMarkers ==
    [][/\ ParseEnter => current_section' = "None"
       /\ ParseLine => TierStep]_vars

-----------------------------------------------------------------------------
(* Claims on the order of the pipeline.                                    *)

\* nothing of the generator has happened yet
GeneratorUntouched ==
    /\ gpc = "idle"
    /\ builder_calls = 0
    /\ model_calls = 0
    /\ context = <<>>
    /\ queries_result = EmptyDict

\* what each step of the pipeline finds when it is taken
PipelineStep ==
    /\ AnalyzeFetch =>
          /\ soup = <<>> /\ analysis = EmptyDict
          /\ GeneratorUntouched
    /\ AnalyzeStep => GeneratorUntouched
    /\ GenerateStep => apc = "returned" /\ analysis.success
    /\ GenerateBuild =>
          /\ builder_calls = 0 /\ model_calls = 0
          /\ queries_result = EmptyDict
    /\ GenerateRequest =>
          /\ builder_calls = 1 /\ model_calls = 0
          /\ context = BuildContext(gen_args.analysis, gen_args.region,
                                    gen_args.language, gen_args.count)
          /\ queries_result = EmptyDict
    /\ GenerateParse =>
          /\ builder_calls = 1 /\ model_calls = 1
          /\ provider.kind = "reply"
          /\ queries_result = EmptyDict

\* C14: within one run of handle_message the steps are sequential and do
\* not overlap: the fetch and the extraction are complete before the
\* context is built, the context is built before the model call is issued,
\* the model call is complete before the reply is parsed, and each of
\* these steps is taken at most once.
C14_Sequential == [][PipelineStep]_vars

\* C14 witness: a run that went through every step once and answered with
\* the parsed reply.
C14_Witness ==
    /\ hpc = "done" /\ chat = "response"
    /\ apc = "returned" /\ analysis.success
    /\ builder_calls = 1 /\ model_calls = 1
    /\ provider.kind = "reply" /\ ~provider.text.none
    /\ queries_result = ParseGptResponse(provider.text)

-----------------------------------------------------------------------------
(* Claims on the independence of the extractors.                           *)

\* the parsed page as BeautifulSoup(html_content) delivers it
ParsedPage == site.body

\* the text of the whole page, the text inside script, style and noscript
\* elements included
FullPageText == GetText(ParsedPage, TRUE)

\* C15: the extractors are independent of one another: region, services
\* and selling points of an analysis are what _detect_region,
\* _extract_services and _extract_usp give on the page as it was parsed,
\* whether or not _extract_text_content ran before them, and the region
\* and the selling points are read off the text of the whole page, the
\* text inside script, style and noscript elements included.
C15_ExtractorsIndependent ==
    (apc = "returned" /\ analysis.success) =>
        /\ analysis.region = DetectRegion(ParsedPage, script_strings)
        /\ analysis.services = ExtractServices(ParsedPage)
        /\ analysis.unique_selling_points =
              ExtractUsp(ParsedPage, script_strings)
        /\ analysis.region = DetectRegionText(FullPageText)
        /\ analysis.unique_selling_points =
              LET Found(keyword) == Occurs(keyword, LowerStr(FullPageText))
              IN  SelectSeq(usp_keywords, Found)

-----------------------------------------------------------------------------
(* Claims on the two region tables.                                        *)

\* the lower-cased text _parse_user_input matches its regions against
UserTextLower == LowerStr(Strip(Replace(Strip(user_message), url, <<>>)))

\* C16: _parse_user_input matches the user's text against the same city
\* table as _detect_region: on every lower-cased text it finds a region
\* exactly when _detect_region finds one, and both give the same display
\* name, that of the first variant of the table which occurs (locative
\* forms and the abbreviation 'спб' included).
C16_SameGazetteer ==
    (hpc # "start" /\ url # <<>>) =>
        Get(params, "region", None) = DetectRegionText(UserTextLower)
=============================================================================
